---- MODULE Spec2Model ----
(***************************************************************************)
(* ai-mate: the real-time audio / conversation pipeline.                   *)
(*                                                                         *)
(* The threads of src/src/main.rs are modelled as interleaved actions over *)
(* the shared atomics and channels:                                        *)
(*   capture callback   (record.rs, build_input_f32)                       *)
(*   record thread      (record.rs, record_thread)                         *)
(*   device callback    (playback.rs, f32 output callback)                 *)
(*   playback control   (playback.rs, playback_thread select loop)         *)
(*   orchestrator       (conversation.rs, conversation_thread)             *)
(*   TTS adapters       (tts.rs, tts/kokoro_tts.rs)                        *)
(*   keyboard, UI, main (keyboard.rs, ui.rs, main.rs)                      *)
(*                                                                         *)
(* Strings are sequences of one-character strings.  A sample in the        *)
(* playback path is a positive number SampleOf(e): a non-zero sample       *)
(* synthesized for the turn whose epoch is e; 0 is silence.                *)
(***************************************************************************)
EXTENDS Integers, Sequences, FiniteSets, TLC

\* ---------------------------------------------------------------- bounds
\* Largest value of interrupt_counter explored (a u64 in the code).
MaxEpoch == 2
\* Clock: now_ms starts at StartMs and advances MaxTicks times by TickMs.
StartMs == 1
TickMs == 900
MaxTicks == 1
MaxNow == StartMs + MaxTicks * TickMs
\* Between key presses the clock advances MaxKeyTicks times by KeyTickMs.
KeyTickMs == 500
MaxKeyTicks == 4
\* Capture device: interleaved samples per callback, and the stream config.
CbSamples == 200
\* A callback may deliver up to CbJitter samples fewer than CbSamples.
CbJitter == 1
InSampleRate == 1333
InChannels == 1
\* Longest utterance buffer explored, in callbacks and in samples.
MaxUttCallbacks == 2
MaxUttSamples == MaxUttCallbacks * CbSamples
\* Utterances the capture side emits in one run.
MaxUtts == 1
\* Playback: model-scale stand-ins of QUEUE_CAP_FRAMES and the device config.
QueueCapFrames == 2
OutChannels == 1
OutSampleRate == 48000
\* Largest channel count of a WAV the HTTP backend returns.
MaxWavChannels == 2
\* Samples the device asks for in one callback.
OutBufLen == 1
\* Largest AudioChunk (in samples) a TTS adapter produces.
MaxChunk == 3
\* Messages explored in the unbounded stop-playback and audio channels.
MaxStops == 2
MaxAudio == 1
\* Peak levels of a capture buffer, in tenths; vad_thresh in the same unit.
MaxPeak == 2
VadThresh == 2
\* Tokens the LLM stream delivers in one turn.
MaxTokens == 2
\* Lines of a response body given to the stream function.
MaxLines == 2
\* characters of the long stream piece
LongPieceLen == 70
\* Chunks one HTTP speak call submits.
MaxHttpChunks == 1
\* Model-scale stand-ins of CHUNK_FRAMES (tts.rs:26) and of the 8192-byte
\* read buffer of tts.rs:511, in frames and in samples.
ChunkFrames == 1
WavBufSamples == 2
\* Longest data chunk of a WAV response, in samples.
MaxWavLen == 8

\* ------------------------------------------------------- program constants
HANGOVER_MS_DEFAULT == 100
END_SILENCE_MS_DEFAULT == 850
MIN_UTTERANCE_MS_DEFAULT == 300
EscWindowMs == 1000
MAX_CHUNK_SIZE == 50
KOKORO_SAMPLE_RATE == 24000

\* ---------------------------------------------------------------- state
VARIABLES
  now,                \* util::now_ms reading (Instant clock)
  interrupt_counter,  \* AppState.interrupt_counter
  playback_active,    \* PlaybackState.playback_active
  playing,            \* UiState.playing
  volume,             \* PlaybackState.volume: 0 or 1
  gate_until_ms,      \* PlaybackState.gate_until_ms
  paused,             \* PlaybackState.paused
  recording_paused,   \* AppState.recording_paused
  stop_all,           \* messages in the bounded(1) stop_all channel
  rx_stop,            \* stop-playback channel; each message carries the
                      \*   epoch its sender advanced to (0: none), for checks
  rx_audio,           \* tx_play/rx_play channel of AudioChunks
  rx_utt,             \* utterance channel
  queue,              \* playback sample deque
  out_buf,            \* the device output buffer as last left by a callback
  pb_pc,              \* playback control loop: select | backpressure | exited
  pb_chunk,           \* the chunk the control loop is holding
  user_speaking,      \* record_thread: in-speech flag
  last_voice_ms,      \* record_thread: last voiced callback
  utt_buf,            \* record_thread: utterance buffer length in samples
  stop_sent,          \* record_thread: debounce latch
  utts_emitted,       \* utterances sent so far (bounds the run)
  peak,               \* UiState.peak: peak of the last processed capture buffer
  cap_log,            \* history: the last end-of-silence (samples taken, sent or
                      \*   dropped) and whether the last barge-in fired inside
                      \*   the gate window
  rec_alive,          \* record thread still in its poll loop
  kb_alive,           \* keyboard thread still in its loop
  ui_alive,           \* UI thread still in its loop
  last_esc,           \* keyboard_thread: Option<Instant>, -1 = None
  speed,              \* AppState.speed, in tenths
  voice,              \* AppState.voice
  language,           \* Args.language
  prev_esc,           \* history: when the previous Escape was pressed and
                      \*   whether it completed a double press
  key_log,            \* history: the last arrow key and the speed and voice
                      \*   it found
  main_pc,            \* main: wait_kb | joining | done
  tts_backend,        \* Args.tts: "kokoro" | "opentts"
  conv_pc,            \* orchestrator position
  my_interrupt,       \* conversation_thread: epoch snapshot of the turn
  interrupted,        \* conversation_thread: turn flag
  interrupted_printed,\* conversation_thread: banner dedup flag
  speaker_buf,        \* PhraseSpeaker.buf
  tokens_left,        \* tokens the LLM stream may still deliver this turn
  prompt,             \* the prompt built for this turn (lines)
  conversation_history, \* AppState.conversation_history (lines)
  llm_stream,         \* the stream function of llm.rs: Args.llm, the lines of
                      \*   the response body still to read, the lines read,
                      \*   the on_piece calls made, and whether it has returned
  tts_pc,             \* position inside tts::speak
  tts_text,           \* text handed to speak
  tts_sent,           \* chunks the current speak call has submitted
  interrupt_flag,     \* StreamingTts.interrupt_flag of the current call
  cur_mon,            \* the current call's cancel monitor is running
  leaked,             \* monitors of returned calls still running, per expected epoch
  tts_result,         \* what speak returns: none | Completed | Interrupted | Err
  wav_channels,       \* stream_wav16le_over_http: channels of the fmt chunk, 0 = unread
  wav,                \* stream_wav16le_over_http as a function: the fmt chunk
                      \*   (ch, sr) and data length (len, in samples) of the
                      \*   response, the chunks sent for it and the result
  stale_call,         \* history: did interrupt_counter differ from the expected
                      \*   epoch when the current speak call began: unset | stale | fresh
  \* ---- history variables used by the properties
  observed,           \* on_piece has loaded interrupt_counter != my_interrupt this turn
  n_print,            \* phrases printed this turn
  n_assist,           \* ASSISTANT lines appended this turn
  n_speak,            \* tts::speak calls made this turn
  n_banner,           \* "USER interrupted" banners printed this turn
  bumped_in_stream,   \* interrupt_counter advanced while the reply was streaming
  turn_bumped,        \* interrupt_counter advanced during this turn
  turn_ev,            \* what happened in this turn: a set of event names
  reply,              \* tokens the LLM stream has delivered this turn
  spoken,             \* texts handed to tts::speak this turn, in call order
  in_code_block,      \* conversation.rs IN_CODE_BLOCK (thread-local of the orchestrator)
  last_strip,         \* the last strip_special_chars call: input, fence state
                      \*   on entry, output
  span_stops,         \* stop signals the capture callback sent in this voice span
  stop_handled,       \* highest epoch whose stop the control loop has handled
  cb_vol0,            \* the last device callback snapshotted volume == 0
  last_push,          \* format of the last chunk pushed and of the samples queued for it
  max_held,           \* history: the most mutexes (of volume, queue, utterance
                      \*   buffer, transcript, voice) one thread has held at once
  last_bump           \* who advanced interrupt_counter last

sharedVars == <<now, interrupt_counter, playback_active, playing, volume,
                gate_until_ms, paused, recording_paused, stop_all>>
chanVars   == <<rx_stop, rx_audio, rx_utt>>
pbVars     == <<queue, out_buf, pb_pc, pb_chunk>>
capVars    == <<user_speaking, last_voice_ms, utt_buf, stop_sent, utts_emitted,
                peak, cap_log>>
thrVars    == <<rec_alive, kb_alive, ui_alive, last_esc, main_pc, speed, voice,
                language, prev_esc, key_log>>
convVars   == <<conv_pc, my_interrupt, interrupted, interrupted_printed,
                speaker_buf, tokens_left, prompt, conversation_history,
                llm_stream>>
ttsVars    == <<tts_backend, tts_pc, tts_text, tts_sent, interrupt_flag,
                cur_mon, leaked, tts_result, wav_channels, wav, stale_call>>
turnHist   == <<observed, n_print, n_assist, n_speak, n_banner,
                bumped_in_stream, turn_bumped, turn_ev, reply, spoken,
                in_code_block, last_strip>>
histRest   == <<span_stops, stop_handled, cb_vol0, last_bump, last_push>>
histVars   == <<histRest, max_held>>

vars == <<sharedVars, chanVars, pbVars, capVars, thrVars, convVars, ttsVars,
          turnHist, histVars>>

\* ---------------------------------------------------------------- helpers
Max(a, b) == IF a >= b THEN a ELSE b

\* The running handler holds n of the mutexes at once at some point.
Holding(n) == max_held' = Max(max_held, n)

SampleOf(e) == e + 1
Silence(n) == [i \in 1..n |-> 0]
Repeat(v, n) == [i \in 1..n |-> v]

\* crossbeam try_send on the bounded(1) stop_all channel: dropped when full.
TrySendStopAll(n) == IF n < 1 THEN n + 1 ELSE n

\* Positions of the orchestrator at which a turn's epoch snapshot is live, and
\* those at which the LLM reply is streaming.
InTurn == conv_pc \in {"chk102", "chk203", "llm_req", "llm", "llm_read", "speak",
                      "post1", "post2", "flush_speak"}
Streaming == conv_pc \in {"llm", "llm_read", "speak"}

\* History bookkeeping of an advance of interrupt_counter by `who`.
BumpHist(who) ==
  /\ last_bump' = who
  /\ bumped_in_stream' = (bumped_in_stream \/ Streaming)
  /\ turn_bumped' = (turn_bumped \/ InTurn)

\* ------------------------------------------------------------------ clock
TickBy(step, limit) ==
  /\ now + step <= limit
  /\ now' = now + step
  /\ UNCHANGED <<interrupt_counter, playback_active, playing, volume, gate_until_ms,
                 paused, recording_paused, stop_all, chanVars, pbVars, capVars,
                 thrVars, convVars, ttsVars, turnHist, histVars>>

Tick == TickBy(TickMs, MaxNow)
\* The clock at the finer grain of key presses.
KeyTick == TickBy(KeyTickMs, StartMs + MaxKeyTicks * KeyTickMs)

\* --------------------------------------------------------- capture callback
\* record.rs:211  interrupt_counter.fetch_add(1)
CaptureBump(e) == e + 1

\* record.rs:239-240  duration of the captured utterance in ms
DurMs(samples) == (samples * 1000) \div Max(InSampleRate * InChannels, 1)

\* record.rs:208  the barge-in condition of a voiced callback
BargeInGated == playback_active /\ ~stop_sent /\ now > gate_until_ms
BargeIn == playback_active /\ ~stop_sent

\* record.rs:250  the test that commits an utterance
LongEnoughStrict(dur_ms) == dur_ms > MIN_UTTERANCE_MS_DEFAULT
LongEnough(dur_ms) == dur_ms >= MIN_UTTERANCE_MS_DEFAULT

\* record.rs:194  the voice test of a capture buffer
VoicedAlways(pk) == TRUE
Voiced(pk) == pk >= VadThresh

NoCapLog == [seg |-> 0, sent |-> FALSE, gated |-> FALSE]

\* record.rs:180-277  one call of the f32 input callback with a buffer of
\* `len` samples whose peak is pk.
CaptureCallback(pk, len) ==
  /\ rec_alive
  /\ IF recording_paused THEN
       UNCHANGED <<sharedVars, chanVars, capVars, span_stops, last_bump,
                   bumped_in_stream, turn_bumped>>
     ELSE IF stop_all > 0 THEN
       /\ peak' = pk
       /\ stop_all' = 0
       /\ UNCHANGED <<now, interrupt_counter, playback_active, playing, volume,
                      gate_until_ms, paused, recording_paused, chanVars,
                      user_speaking, last_voice_ms, utt_buf, stop_sent,
                      utts_emitted, cap_log, span_stops, last_bump,
                      bumped_in_stream, turn_bumped>>
     ELSE IF Voiced(pk) THEN
       /\ (IF user_speaking THEN utt_buf ELSE 0) + len <= MaxUttSamples
       /\ peak' = pk
       /\ last_voice_ms' = now
       /\ user_speaking' = TRUE
       /\ utt_buf' = (IF user_speaking THEN utt_buf ELSE 0) + len
       /\ IF BargeIn THEN
            /\ interrupt_counter < MaxEpoch
            /\ Len(rx_stop) < MaxStops
            /\ rx_stop' = Append(rx_stop, CaptureBump(interrupt_counter))
            /\ interrupt_counter' = CaptureBump(interrupt_counter)
            /\ gate_until_ms' = now + HANGOVER_MS_DEFAULT
            /\ volume' = 0
            /\ playback_active' = FALSE
            /\ stop_sent' = FALSE      \* set at :212, cleared again at :221
            /\ span_stops' = (IF user_speaking THEN span_stops ELSE 0) + 1
            /\ cap_log' = [cap_log EXCEPT !.gated = (now <= gate_until_ms)]
            /\ BumpHist("capture")
          ELSE
            /\ span_stops' = (IF user_speaking THEN span_stops ELSE 0)
            /\ UNCHANGED <<rx_stop, interrupt_counter, gate_until_ms, volume,
                           playback_active, stop_sent, cap_log, last_bump,
                           bumped_in_stream, turn_bumped>>
       /\ UNCHANGED <<now, playing, paused, recording_paused, stop_all,
                      rx_audio, rx_utt, utts_emitted>>
     ELSE IF user_speaking THEN
       /\ utt_buf + len <= MaxUttSamples
       /\ peak' = pk
       /\ IF last_voice_ms > 0 /\ now - last_voice_ms >= END_SILENCE_MS_DEFAULT THEN
            /\ user_speaking' = FALSE
            /\ stop_sent' = FALSE
            /\ utt_buf' = 0             \* std::mem::take
            /\ IF LongEnough(DurMs(utt_buf + len)) THEN
                 /\ utts_emitted < MaxUtts
                 /\ rx_utt' = Append(rx_utt, utt_buf + len)
                 /\ utts_emitted' = utts_emitted + 1
                 /\ cap_log' = [cap_log EXCEPT !.seg = utt_buf + len, !.sent = TRUE]
               ELSE
                 /\ cap_log' = [cap_log EXCEPT !.seg = utt_buf + len, !.sent = FALSE]
                 /\ UNCHANGED <<rx_utt, utts_emitted>>
          ELSE
            /\ utt_buf' = utt_buf + len
            /\ UNCHANGED <<user_speaking, stop_sent, rx_utt, utts_emitted, cap_log>>
       /\ UNCHANGED <<sharedVars, rx_stop, rx_audio, last_voice_ms, span_stops,
                      last_bump, bumped_in_stream, turn_bumped>>
     ELSE
       /\ peak' = pk
       /\ stop_sent' = FALSE
       /\ UNCHANGED <<sharedVars, chanVars, user_speaking, last_voice_ms, utt_buf,
                      utts_emitted, cap_log, span_stops, last_bump,
                      bumped_in_stream, turn_bumped>>
  /\ UNCHANGED <<pbVars, thrVars, convVars, ttsVars, observed, n_print, n_assist,
                 n_speak, spoken,
                 in_code_block, last_strip, n_banner, turn_ev, reply, stop_handled, cb_vol0,
                 last_push>>
  \* :199-204, :225, :236 lock utt_buf; :218 locks volume after utt_buf is
  \* released
  /\ IF recording_paused \/ stop_all > 0 \/ (~Voiced(pk) /\ ~user_speaking)
       THEN UNCHANGED max_held
       ELSE Holding(1)

\* record.rs:311-420  one call of the i16 input callback: stop_all is polled
\* first (:312-314), then recording_paused (:315-317); from there on the
\* body is that of the f32 callback.
CaptureCallbackI16(pk, len) ==
  IF stop_all > 0 THEN
    /\ rec_alive
    /\ stop_all' = 0
    /\ UNCHANGED <<now, interrupt_counter, playback_active, playing, volume,
                   gate_until_ms, paused, recording_paused, chanVars, pbVars,
                   capVars, thrVars, convVars, ttsVars, turnHist, histVars>>
  ELSE CaptureCallback(pk, len)

CaptureI16 == \E pk \in 0..MaxPeak : CaptureCallbackI16(pk, CbSamples)

\* The device delivers buffers of CbSamples samples.
Capture == \E pk \in 0..MaxPeak : CaptureCallback(pk, CbSamples)

\* The device delivers buffers of CbSamples samples or up to CbJitter fewer.
CaptureAny ==
  \E pk \in 0..MaxPeak, len \in (CbSamples - CbJitter)..CbSamples :
    CaptureCallback(pk, len)

\* record.rs:141-145  the record thread's poll loop: a stop_all message ends
\* it and drops the input stream.
RecordPoll ==
  /\ rec_alive
  /\ stop_all > 0
  /\ stop_all' = 0
  /\ rec_alive' = FALSE
  /\ UNCHANGED <<now, interrupt_counter, playback_active, playing, volume,
                 gate_until_ms, paused, recording_paused, chanVars, pbVars, capVars,
                 kb_alive, ui_alive, last_esc, speed, voice, language,
                 prev_esc, key_log, main_pc,
                 convVars, ttsVars, turnHist,
                 histVars>>

\* ---------------------------------------------------------- device callback
\* tts.rs:27 QUEUE_CAP_FRAMES * channels (playback.rs:319)
MaxSamples == QueueCapFrames * OutChannels

\* The buffer the platform hands to the callback is not initialised by the
\* code: it holds zeros or what the previous callback left in it.
HandedBuffers == {out_buf, Silence(OutBufLen)}

\* playback.rs:97-106  the branch taken when the volume snapshot is 0.  The
\* branch returns without writing `out`.
MutedOutput(buf) == buf

\* playback.rs:123-131  drain: out[i] = q.pop_front() * vol, or 0.
Drained(q, vol) ==
  [i \in 1..OutBufLen |-> IF i <= Len(q) THEN q[i] * vol ELSE 0]
AfterDrainNone(q) == q
AfterDrain(q) ==
  IF Len(q) <= OutBufLen THEN <<>> ELSE SubSeq(q, OutBufLen + 1, Len(q))

\* playback.rs:110-121  the paused branch takes nothing from the queue.
PausedQueueDrains(q) == AfterDrain(q)
PausedQueue(q) == q

\* playback.rs:95-146  one call of the f32 output callback.
DeviceCallback(buf) ==
  /\ pb_pc # "exited"
  /\ IF volume = 0 THEN
       /\ queue' = <<>>
       /\ playback_active' = FALSE
       /\ playing' = FALSE
       /\ gate_until_ms' = now + HANGOVER_MS_DEFAULT
       /\ out_buf' = MutedOutput(buf)
       /\ cb_vol0' = TRUE
     ELSE IF paused THEN
       /\ out_buf' = Silence(OutBufLen)
       /\ IF queue # <<>>
            THEN playback_active' = TRUE /\ playing' = TRUE
            ELSE UNCHANGED <<playback_active, playing>>
       /\ cb_vol0' = FALSE
       /\ queue' = PausedQueue(queue)
       /\ UNCHANGED gate_until_ms
     ELSE
       /\ out_buf' = Drained(queue, volume)
       /\ queue' = AfterDrain(queue)
       /\ IF queue = <<>>       \* any_real = false; n >= 1 always holds
            THEN /\ playback_active' = FALSE
                 /\ playing' = FALSE
                 /\ gate_until_ms' = now + HANGOVER_MS_DEFAULT
            ELSE UNCHANGED <<playback_active, playing, gate_until_ms>>
       /\ cb_vol0' = FALSE
  /\ UNCHANGED <<now, interrupt_counter, volume, paused, recording_paused, stop_all,
                 chanVars, pb_pc, pb_chunk, capVars, thrVars, convVars, ttsVars,
                 turnHist, span_stops, stop_handled, last_bump, last_push>>
  \* :96 volume (released at the end of the statement), then :98 or :107 queue
  /\ Holding(1)

Device == \E buf \in HandedBuffers : DeviceCallback(buf)

\* ------------------------------------------------------ playback control loop
NoChunk == [tag |-> 0, n |-> 0, ch |-> 0, sr |-> 0]
NoPush == [from |-> <<0, 0>>, to |-> <<0, 0>>]

\* A block of interleaved samples: its length, channel count and rate.
Pcm(n, ch, sr) == [n |-> n, ch |-> ch, sr |-> sr]

\* playback.rs:15-48  convert_channels: every input frame becomes one frame
\* of out_channels samples (mono duplicated, downmix averaged, otherwise
\* copied and zero-padded); a trailing partial frame is dropped.
ConvertChannels(d, in_channels, out_channels) ==
  IF in_channels = out_channels THEN d
  ELSE Pcm((d.n \div in_channels) * out_channels, out_channels, d.sr)

\* audio.rs:97-113  resample_linear: out_len = round(len * out_sr / in_sr).
ResampleLinearLen(len, in_sr, out_sr) ==
  IF in_sr = out_sr \/ len = 0 THEN len
  ELSE (2 * len * out_sr + in_sr) \div (2 * in_sr)

\* audio.rs:116-128 (57-94)  resample_to: per-channel linear resampling.
ResampleToSkip(d, channels, in_sr, out_sr) == d
ResampleTo(d, channels, in_sr, out_sr) ==
  IF in_sr = out_sr \/ d.n = 0 THEN d
  ELSE IF channels = 1 THEN Pcm(ResampleLinearLen(d.n, in_sr, out_sr), d.ch, out_sr)
  ELSE Pcm(ResampleLinearLen(d.n \div channels, in_sr, out_sr) * channels,
           d.ch, out_sr)

\* playback.rs:336-352  the samples queued for a chunk.
Converted(chunk) ==
  LET data == IF chunk.ch # OutChannels
                THEN ConvertChannels(Pcm(chunk.n, chunk.ch, chunk.sr),
                                     chunk.ch, OutChannels)
                ELSE Pcm(chunk.n, chunk.ch, chunk.sr)
  IN IF chunk.sr # OutSampleRate
       THEN ResampleTo(data, OutChannels, chunk.sr, OutSampleRate)
       ELSE data

\* playback.rs:290-297  select arm: stop_all.
PbStopAll ==
  /\ pb_pc = "select"
  /\ stop_all > 0
  /\ stop_all' = 0
  /\ queue' = <<>>
  /\ rx_audio' = <<>>
  /\ playback_active' = FALSE
  /\ playing' = FALSE
  /\ pb_pc' = "exited"
  /\ UNCHANGED <<now, interrupt_counter, volume, gate_until_ms, paused,
                 recording_paused, rx_stop, rx_utt, out_buf, pb_chunk, capVars,
                 thrVars, convVars, ttsVars, turnHist, histRest>>
  /\ Holding(1)                        \* :291 queue

\* playback.rs:312  while rx_audio.try_recv().is_ok() {}
DrainAudio(ch) == <<>>

\* playback.rs:298-313  select arm: stop-playback signal.
PbStop ==
  /\ pb_pc = "select"
  /\ rx_stop # <<>>
  /\ rx_stop' = Tail(rx_stop)
  /\ queue' = <<>>
  /\ playback_active' = FALSE
  /\ playing' = FALSE
  /\ gate_until_ms' = now + HANGOVER_MS_DEFAULT
  /\ volume' = 0
  /\ rx_audio' = DrainAudio(rx_audio)
  /\ stop_handled' = Max(stop_handled, Head(rx_stop))
  /\ UNCHANGED <<now, interrupt_counter, paused, recording_paused, stop_all, rx_utt,
                 out_buf, pb_pc, pb_chunk, capVars, thrVars, convVars, ttsVars,
                 turnHist, span_stops, cb_vol0, last_bump, last_push>>
  \* :299 queue (released at the end of the statement), then :305 volume
  /\ Holding(1)

\* playback.rs:314-315  select arm: a chunk arrives.
PbRecvAudio ==
  /\ pb_pc = "select"
  /\ rx_audio # <<>>
  /\ pb_chunk' = Head(rx_audio)
  /\ rx_audio' = Tail(rx_audio)
  /\ pb_pc' = "backpressure"
  /\ UNCHANGED <<sharedVars, rx_stop, rx_utt, queue, out_buf, capVars, thrVars,
                 convVars, ttsVars, turnHist, histVars>>

\* playback.rs:325  room test of the backpressure loop.
HasRoom(q, chunk) == Len(q) + chunk.n <= MaxSamples

\* playback.rs:322-356  one round of the backpressure loop: sleep when there
\* is no room, otherwise restore the volume, push and mark playing.
PbPush ==
  /\ pb_pc = "backpressure"
  /\ IF HasRoom(queue, pb_chunk) THEN
       /\ volume' = 1
       /\ queue' = queue \o Repeat(SampleOf(pb_chunk.tag), Converted(pb_chunk).n)
       /\ last_push' = [from |-> <<pb_chunk.ch, pb_chunk.sr>>,
                        to |-> <<Converted(pb_chunk).ch, Converted(pb_chunk).sr>>]
       /\ playback_active' = TRUE
       /\ playing' = TRUE
       /\ pb_pc' = "select"
       /\ pb_chunk' = NoChunk
       /\ Holding(2)       \* :333 volume and, with it still held, :335 queue
     ELSE
       /\ UNCHANGED <<volume, queue, playback_active, playing, pb_pc, pb_chunk,
                      last_push>>
       /\ Holding(1)       \* :324 queue
  /\ UNCHANGED <<now, interrupt_counter, gate_until_ms, paused, recording_paused,
                 stop_all, chanVars, out_buf, capVars, thrVars, convVars, ttsVars,
                 turnHist, span_stops, stop_handled, cb_vol0, last_bump>>

\* ------------------------------------------------------------------ keyboard
\* keyboard.rs:71  interrupt_counter.fetch_add(1)
KeyboardBumpReset(e) == 0
KeyboardBump(e) == e + 1

\* keyboard.rs:37-39  the keyboard loop sees a stop_all message.
KbPollStop ==
  /\ kb_alive
  /\ stop_all > 0
  /\ stop_all' = 0
  /\ kb_alive' = FALSE
  /\ UNCHANGED <<now, interrupt_counter, playback_active, playing, volume,
                 gate_until_ms, paused, recording_paused, chanVars, pbVars, capVars,
                 rec_alive, ui_alive, last_esc, speed, voice, language,
                 prev_esc, key_log, main_pc,
                 convVars, ttsVars, turnHist,
                 histVars>>

\* keyboard.rs:50-55  Ctrl-C.
KbCtrlC ==
  /\ kb_alive
  /\ stop_all' = TrySendStopAll(stop_all)
  /\ kb_alive' = FALSE
  /\ UNCHANGED <<now, interrupt_counter, playback_active, playing, volume,
                 gate_until_ms, paused, recording_paused, chanVars, pbVars, capVars,
                 rec_alive, ui_alive, last_esc, speed, voice, language,
                 prev_esc, key_log, main_pc,
                 convVars, ttsVars, turnHist,
                 histVars>>

\* keyboard.rs:58-62  Space.
KbSpace ==
  /\ kb_alive
  /\ recording_paused' = ~recording_paused
  /\ UNCHANGED <<now, interrupt_counter, playback_active, playing, volume,
                 gate_until_ms, paused, stop_all, chanVars, pbVars, capVars, thrVars,
                 convVars, ttsVars, turnHist, histVars>>

\* keyboard.rs:68-69  is this Escape the second of a double press?
DoubleEscNoWindow == last_esc # -1
DoubleEsc == last_esc # -1 /\ now - last_esc <= EscWindowMs

\* keyboard.rs:64-85  Escape.
KbEsc ==
  /\ kb_alive
  /\ Len(rx_stop) < MaxStops
  /\ prev_esc' = [at |-> now, dbl |-> DoubleEsc]
  /\ IF DoubleEsc THEN
       /\ interrupt_counter < MaxEpoch
       /\ rx_stop' = Append(rx_stop, KeyboardBump(interrupt_counter))
       /\ interrupt_counter' = KeyboardBump(interrupt_counter)
       /\ last_esc' = -1
       /\ BumpHist("keyboard")
     ELSE
       /\ rx_stop' = Append(rx_stop, 0)
       /\ last_esc' = now
       /\ UNCHANGED <<interrupt_counter, last_bump, bumped_in_stream, turn_bumped>>
  /\ UNCHANGED <<now, playback_active, playing, volume, gate_until_ms, paused,
                 recording_paused, stop_all, rx_audio, rx_utt, pbVars, capVars,
                 rec_alive, kb_alive, ui_alive, main_pc, speed, voice, language,
                 key_log, convVars, ttsVars, observed,
                 n_print, n_assist, n_speak, spoken,
                 in_code_block, last_strip, n_banner, turn_ev, reply, span_stops,
                 stop_handled,
                 cb_vol0, last_push, max_held>>

NoEsc == [at |-> -1, dbl |-> FALSE]
NoKey == [key |-> "none", speed |-> 0, voice |-> ""]

\* state.rs:85-93  increase_voice_speed: the value stored
IncreaseVoiceSpeedNoCap(cur) == cur + 1
IncreaseVoiceSpeed(cur) == IF cur < 80 THEN cur + 1 ELSE cur
\* state.rs:95-103  decrease_voice_speed: the value stored
DecreaseVoiceSpeed(cur) == IF cur > 5 THEN cur - 1 ELSE cur

\* tts.rs:84-206, 350-  the voice tables, for three of the languages
Languages == {"es", "it", "fr"}
\* tts.rs:233-253  get_voices_for
GetVoicesFor(tts, lang) ==
  IF tts = "kokoro" THEN
    CASE lang = "es" -> <<"ef_dora", "em_alex", "em_santa">>
      [] lang = "it" -> <<"if_sara", "im_nicola">>
      [] lang = "fr" -> <<"ff_siwis">>
      [] OTHER -> <<>>
  ELSE IF tts = "opentts" THEN
    CASE lang = "es" -> <<"larynx:karen_savage-glow_tts">>
      [] lang = "it" -> <<"larynx:riccardo_fasol-glow_tts">>
      [] lang = "fr" -> <<"larynx:gilles_le_blanc-glow_tts">>
      [] OTHER -> <<>>
  ELSE <<>>
Voices(tts, lang) == {GetVoicesFor(tts, lang)[i] : i \in 1..Len(GetVoicesFor(tts, lang))}

\* keyboard.rs:102, 113  voices.iter().position(|v| *v == *current).unwrap_or(0)
Position(voices, current) ==
  IF \E i \in 1..Len(voices) : voices[i] = current
    THEN (CHOOSE i \in 1..Len(voices) :
            voices[i] = current /\ \A j \in 1..(i - 1) : voices[j] # current) - 1
    ELSE 0
\* keyboard.rs:103  the index Left selects
PrevIndexNoWrap(pos, len) == IF pos = 0 THEN 0 ELSE pos - 1
PrevIndex(pos, len) == IF pos = 0 THEN len - 1 ELSE pos - 1
\* keyboard.rs:114  the index Right selects
NextIndex(pos, len) == (pos + 1) % len

\* What an arrow key leaves alone.
ArrowFrame(key) ==
  /\ kb_alive
  /\ key_log' = [key |-> key, speed |-> speed, voice |-> voice]
  /\ IF key \in {"Left", "Right"}           \* :100, :111 voice
       THEN Holding(1) ELSE UNCHANGED max_held
  /\ UNCHANGED <<sharedVars, chanVars, pbVars, capVars, rec_alive, kb_alive,
                 ui_alive, last_esc, main_pc, language, prev_esc, convVars,
                 ttsVars, turnHist, histRest>>

\* keyboard.rs:88-90  Up.
KbUp ==
  /\ ArrowFrame("Up")
  /\ speed' = IncreaseVoiceSpeed(speed)
  /\ UNCHANGED voice

\* keyboard.rs:93-95  Down.
KbDown ==
  /\ ArrowFrame("Down")
  /\ speed' = DecreaseVoiceSpeed(speed)
  /\ UNCHANGED voice

\* keyboard.rs:98-106  Left.
KbLeft ==
  /\ ArrowFrame("Left")
  /\ LET voices == GetVoicesFor(tts_backend, language) IN
       voice' = IF voices # <<>>
                  THEN voices[PrevIndex(Position(voices, voice), Len(voices)) + 1]
                  ELSE voice
  /\ UNCHANGED speed

\* keyboard.rs:109-117  Right.
KbRight ==
  /\ ArrowFrame("Right")
  /\ LET voices == GetVoicesFor(tts_backend, language) IN
       voice' = IF voices # <<>>
                  THEN voices[NextIndex(Position(voices, voice), Len(voices)) + 1]
                  ELSE voice
  /\ UNCHANGED speed

\* ------------------------------------------------------------- UI and main
\* ui.rs:54-57  the UI loop sees a stop_all message.
UiPollStop ==
  /\ ui_alive
  /\ stop_all > 0
  /\ stop_all' = 0
  /\ ui_alive' = FALSE
  /\ UNCHANGED <<now, interrupt_counter, playback_active, playing, volume,
                 gate_until_ms, paused, recording_paused, chanVars, pbVars, capVars,
                 rec_alive, kb_alive, last_esc, speed, voice, language,
                 prev_esc, key_log, main_pc,
                 convVars, ttsVars, turnHist,
                 histVars>>

\* main.rs:399-401  the keyboard thread is joined, then stop_all is sent once.
MainStop ==
  /\ main_pc = "wait_kb"
  /\ ~kb_alive
  /\ stop_all' = TrySendStopAll(stop_all)
  /\ main_pc' = "joining"
  /\ UNCHANGED <<now, interrupt_counter, playback_active, playing, volume,
                 gate_until_ms, paused, recording_paused, chanVars, pbVars, capVars,
                 rec_alive, kb_alive, ui_alive, last_esc, speed, voice, language,
                 prev_esc, key_log,
                 convVars, ttsVars, turnHist,
                 histVars>>

\* main.rs:406-411  the condition under which every join returns.
AllExited == ~rec_alive /\ pb_pc = "exited" /\ conv_pc = "exited" /\ ~ui_alive

\* ------------------------------------------------------------------- text
\* The character U+0060 is written by name: a string of this notation cannot
\* hold it.
Backtick == "GRAVE"
Whitespace == {" ", "\n", "\t"}
Tokens == {<<"a">>, <<".">>, <<"\n">>}
\* A piece without newline or punctuation, long enough for two of them to
\* make 140 characters.
LongPiece == [i \in 1..LongPieceLen |-> "a"]
\* A piece holding a whole fenced section and the full stop that ends the phrase.
FencedPiece == <<Backtick, Backtick, Backtick, "a", Backtick, Backtick, Backtick, ".">>
\* A piece that opens a fence and ends the phrase inside it.
OpenFencePiece == <<Backtick, Backtick, Backtick, "a", ".">>
\* A wider alphabet of stream pieces, for the phrase segmenter on its own.
Pieces == Tokens \cup {<<"!">>, <<"?">>, <<" ">>, <<"\t">>, <<"a", ".">>, LongPiece,
                     FencedPiece}
\* What the transcription can return: an error, an empty text or a text.
SttResults == {[ok |-> FALSE, text |-> <<>>], [ok |-> TRUE, text |-> <<>>],
               [ok |-> TRUE, text |-> <<" ", "h", "i">>]}

RECURSIVE TrimStart(_)
TrimStart(s) ==
  IF s = <<>> THEN <<>>
  ELSE IF Head(s) \in Whitespace THEN TrimStart(Tail(s)) ELSE s
RECURSIVE TrimEnd(_)
TrimEnd(s) ==
  IF s = <<>> THEN <<>>
  ELSE IF s[Len(s)] \in Whitespace THEN TrimEnd(SubSeq(s, 1, Len(s) - 1)) ELSE s
\* str::trim
Trim(s) == TrimEnd(TrimStart(s))

Contains(s, c) == \E i \in 1..Len(s) : s[i] = c
EndsWith(s, c) == s # <<>> /\ s[Len(s)] = c

\* conversation.rs:310-314  PhraseSpeaker::flush; <<>> stands for None.
FlushUntrimmed(buf) == [buf |-> <<>>, phrase |-> buf]
Flush(buf) == [buf |-> <<>>, phrase |-> Trim(buf)]

\* conversation.rs:307  the trigger of push_text
TriggerAnyText(buf) == buf # <<>>
Trigger(buf) == Contains(buf, "\n") \/ EndsWith(buf, ".")

\* conversation.rs:303-309  PhraseSpeaker::push_text
PushTextKeepBuf(buf, tok) ==
  IF Trigger(buf \o tok) THEN [buf |-> buf \o tok, phrase |-> Trim(buf \o tok)]
  ELSE [buf |-> buf \o tok, phrase |-> <<>>]
PushText(buf, tok) ==
  IF Trigger(buf \o tok) THEN Flush(buf \o tok)
  ELSE [buf |-> buf \o tok, phrase |-> <<>>]

\* conversation.rs:328-330  the characters strip_special_chars removes
SpecialChars == {".", "~", "*", "&", "-", ",", ";", ":", "(", ")", "[", "]",
                 "{", "}", "\"", "'"}
\* conversation.rs:323  the fence that split("```") cuts at
Fence == <<Backtick, Backtick, Backtick>>
NoStrip == [s |-> <<>>, inside |-> FALSE, out |-> <<>>]
\* conversation.rs:321-341  strip_special_chars: the text is cut at every
\* fence, left to right; a part met outside a fence is copied without the
\* special characters, a part met inside a fence is not copied; the fence
\* state flips at every fence and is stored back at the end.
\* conversation.rs:326-333  what one part contributes to the result
StripPart(part, inside) ==
  IF inside THEN <<>> ELSE SelectSeq(part, LAMBDA c : c \notin SpecialChars)
RECURSIVE StripSpecialChars(_, _)
StripSpecialChars(s, inside) ==
  LET at == {i \in 1..(Len(s) - 2) : SubSeq(s, i, i + 2) = Fence} IN
    IF at = {} THEN [out |-> StripPart(s, inside), inside |-> inside]
    ELSE
      LET i == CHOOSE k \in at : \A j \in at : k <= j
          r == StripSpecialChars(SubSeq(s, i + 3, Len(s)), ~inside)
      IN [out |-> StripPart(SubSeq(s, 1, i - 1), inside) \o r.out,
          inside |-> r.inside]

\* kokoro_tts.rs:43  text.split_whitespace(): the number of words
Words(s) ==
  Cardinality({i \in 1..Len(s) :
                 /\ s[i] \notin Whitespace
                 /\ (i = Len(s) \/ s[i + 1] \in Whitespace)})
\* kokoro_tts.rs:39-57  split_into_chunks: the number of chunks
KokoroChunks(text) == (Words(text) + MAX_CHUNK_SIZE - 1) \div MAX_CHUNK_SIZE

UserLine(t) == [label |-> "USER", text |-> t]
AssistLine(t) == [label |-> "ASSISTANT", text |-> t]

\* conversation.rs:110, 168  conversation_history.push_str(line)
AppendLineFront(h, line) == <<line>> \o h
AppendLine(h, line) == Append(h, line)

\* conversation.rs:160, 256  the phrases a reply yields: push_text for every
\* piece in turn, then the residual flush.
RECURSIVE PhrasesOf(_, _)
PhrasesOf(buf, toks) ==
  IF toks = <<>> THEN
    IF Flush(buf).phrase # <<>> THEN <<Flush(buf).phrase>> ELSE <<>>
  ELSE
    LET r == PushText(buf, Head(toks)) IN
      (IF r.phrase # <<>> THEN <<r.phrase>> ELSE <<>>) \o PhrasesOf(r.buf, Tail(toks))

\* ------------------------------------------------------------ orchestrator
\* conversation.rs:125-133  print_user_interrupted: 1 when the banner is
\* printed by this call, 0 when the dedup flag suppresses it.
BannerNoDedup(printed) == 1
Banner(printed) == IF printed THEN 0 ELSE 1

\* conversation.rs:149  the epoch test of on_piece
EpochTestNever(cur, mine) == FALSE
EpochTest(cur, mine) == cur # mine

\* conversation.rs:58-60  select arm: stop_all while idle.
ConvStopAll ==
  /\ conv_pc = "idle"
  /\ stop_all > 0
  /\ stop_all' = 0
  /\ conv_pc' = "exited"
  /\ UNCHANGED <<now, interrupt_counter, playback_active, playing, volume,
                 gate_until_ms, paused, recording_paused, chanVars, pbVars, capVars,
                 thrVars, my_interrupt, llm_stream, interrupted, interrupted_printed,
                 speaker_buf, tokens_left, prompt, conversation_history, ttsVars,
                 turnHist, histVars>>

\* conversation.rs:61-70  select arm: an utterance arrives.
ConvRecv ==
  /\ conv_pc = "idle"
  /\ rx_utt # <<>>
  /\ rx_utt' = Tail(rx_utt)
  /\ stop_all' = 0                      \* :64 drain
  /\ playback_active' = TRUE            \* :67
  /\ conv_pc' = "stt"
  /\ observed' = FALSE /\ n_print' = 0 /\ n_assist' = 0 /\ n_speak' = 0
  /\ n_banner' = 0 /\ bumped_in_stream' = FALSE /\ turn_bumped' = FALSE
  /\ turn_ev' = {} /\ reply' = <<>> /\ spoken' = <<>>
  /\ last_strip' = NoStrip
  /\ UNCHANGED in_code_block
  /\ UNCHANGED <<now, interrupt_counter, playing, volume, gate_until_ms, paused,
                 recording_paused, rx_stop, rx_audio, pbVars, capVars, thrVars,
                 my_interrupt, llm_stream, interrupted, interrupted_printed,
                 speaker_buf,
                 tokens_left, prompt, conversation_history, ttsVars, histVars>>

\* conversation.rs:88-101  the transcription returns: an error leaves the
\* thread (`?`), an empty text ends the turn, otherwise the prompt is built
\* and the epoch snapshot taken.
ConvStt(res) ==
  /\ conv_pc = "stt"
  /\ IF ~res.ok THEN
       conv_pc' = "exited" /\ UNCHANGED <<my_interrupt, prompt>>
     ELSE IF Trim(res.text) = <<>> THEN
       conv_pc' = "idle" /\ UNCHANGED <<my_interrupt, prompt>>
     ELSE
       /\ prompt' = Append(conversation_history, UserLine(res.text))
       /\ my_interrupt' = interrupt_counter
       /\ conv_pc' = "chk102"
  /\ IF res.ok /\ Trim(res.text) # <<>>     \* :90 transcript
       THEN Holding(1) ELSE UNCHANGED max_held
  /\ UNCHANGED <<sharedVars, chanVars, pbVars, capVars, thrVars, interrupted,
                 interrupted_printed, speaker_buf, tokens_left, llm_stream,
                 conversation_history, ttsVars, turnHist, histRest>>

\* conversation.rs:102-122  stale check, USER line, turn locals.
ConvChk102 ==
  /\ conv_pc = "chk102"
  /\ IF interrupt_counter # my_interrupt THEN
       /\ stop_all' = TrySendStopAll(stop_all)
       /\ conversation_history' = <<>>
       /\ conv_pc' = "idle"
       /\ UNCHANGED <<speaker_buf, interrupted, interrupted_printed>>
     ELSE
       /\ conversation_history' =
            AppendLine(conversation_history,
                       UserLine(Trim(prompt[Len(prompt)].text)))
       /\ speaker_buf' = <<>>
       /\ interrupted' = FALSE
       /\ interrupted_printed' = FALSE
       /\ conv_pc' = "chk203"
       /\ UNCHANGED stop_all
  /\ UNCHANGED <<now, interrupt_counter, playback_active, playing, volume,
                 gate_until_ms, paused, recording_paused, chanVars, pbVars, capVars,
                 thrVars, my_interrupt, llm_stream, tokens_left, prompt, ttsVars, turnHist,
                 histRest>>
  /\ Holding(1)                        \* :105 or :110 transcript

\* conversation.rs:203-206  check before the LLM request.
ConvChk203 ==
  /\ conv_pc = "chk203"
  /\ IF interrupt_counter # my_interrupt
       THEN conv_pc' = "idle" /\ UNCHANGED tokens_left
       ELSE conv_pc' = "llm_req" /\ tokens_left' = MaxTokens
  /\ UNCHANGED <<sharedVars, chanVars, pbVars, capVars, thrVars, my_interrupt, llm_stream,
                 interrupted, interrupted_printed, speaker_buf, prompt,
                 conversation_history, ttsVars, turnHist, histVars>>

\* conversation.rs:235-239 (and 220-224)  what the orchestrator does with an
\* Err of the LLM call: log, `continue`.
LlmErrExit == "exited"
LlmErrContinue == "idle"

\* llm.rs:384-463 (llm.rs:112-150)  the request: the two checks at the top of
\* the candidate loop, then req.send().  `ok` is FALSE when every candidate
\* endpoint fails, which makes the call return Err.
LlmRequest(ok) ==
  /\ conv_pc = "llm_req"
  /\ IF stop_all > 0 THEN
       stop_all' = 0 /\ conv_pc' = "post1" /\ turn_ev' = turn_ev \cup {"cut"}
     ELSE IF interrupt_counter # my_interrupt THEN
       conv_pc' = "post1" /\ UNCHANGED <<stop_all, turn_ev>>
     ELSE IF ok THEN
       conv_pc' = "llm" /\ UNCHANGED <<stop_all, turn_ev>>
     ELSE
       /\ conv_pc' = LlmErrContinue
       /\ turn_ev' = turn_ev \cup {"llm_req_err"}
       /\ UNCHANGED stop_all
  /\ UNCHANGED <<now, interrupt_counter, playback_active, playing, volume,
                 gate_until_ms, paused, recording_paused, chanVars, pbVars, capVars,
                 thrVars, my_interrupt, llm_stream, interrupted, interrupted_printed,
                 speaker_buf, tokens_left, prompt, conversation_history, ttsVars,
                 observed, n_print, n_assist, n_speak, spoken,
                 in_code_block, last_strip, n_banner, bumped_in_stream,
                 turn_bumped, reply, histVars>>

\* A line of the response body.  kind: blank, the SSE marker "data: [DONE]",
\* a JSON object with a choices array of one choice (a: delta.content,
\* b: text, end: finish_reason == "stop"), or a JSON object in the native
\* Ollama form (a: response, end: done == true).
StreamLines ==
  {l \in [kind : {"blank", "sse_done", "choice", "native"},
          a : {"", "x"}, b : {"", "y"}, end : BOOLEAN] :
     /\ l.kind \in {"blank", "sse_done"} => (l.a = "" /\ l.b = "" /\ ~l.end)
     /\ l.kind = "native" => l.b = ""}

\* llm.rs:485-581 (ollama_stream_response_into) and llm.rs:179-237
\* (llama_server_stream_response_into): the on_piece calls one line causes
\* and whether the function returns after it.  The llama-server function
\* reads the keys "content" and "stop" where the other reads "response" and
\* "done".
ParseLine(llm, l) ==
  CASE l.kind = "blank" -> [pieces |-> <<>>, stop |-> FALSE]
    [] l.kind = "sse_done" -> [pieces |-> <<>>, stop |-> TRUE]
    [] l.kind = "choice" ->
         [pieces |-> (IF l.a # "" THEN <<l.a>> ELSE <<>>) \o
                     (IF l.b # "" THEN <<l.b>> ELSE <<>>),
          stop |-> l.end]
    [] l.kind = "native" ->
         IF llm = "ollama"
           THEN [pieces |-> IF l.a # "" THEN <<l.a>> ELSE <<>>, stop |-> l.end]
           ELSE [pieces |-> <<>>, stop |-> FALSE]

\* llm.rs:479-483 (175-178)  read_line: at EOF the loop is left; otherwise
\* the line is parsed.
StreamRead ==
  /\ llm_stream.llm # "none"
  /\ ~llm_stream.ret
  /\ IF llm_stream.lines = <<>> THEN
       llm_stream' = [llm_stream EXCEPT !.ret = TRUE]
     ELSE
       LET l == Head(llm_stream.lines)
           r == ParseLine(llm_stream.llm, l)
       IN llm_stream' = [llm_stream EXCEPT !.lines = Tail(@),
                                           !.read = Append(@, l),
                                           !.calls = @ \o r.pieces,
                                           !.ret = r.stop]
  /\ UNCHANGED <<sharedVars, chanVars, pbVars, capVars, thrVars, conv_pc,
                 my_interrupt, interrupted, interrupted_printed, speaker_buf,
                 tokens_left, prompt, conversation_history, ttsVars, turnHist,
                 histVars>>

\* llm.rs:471-477 (llm.rs:167-173)  top of the stream loop.
LlmCheck ==
  /\ conv_pc = "llm"
  /\ IF stop_all > 0 THEN
       stop_all' = 0 /\ conv_pc' = "post1" /\ turn_ev' = turn_ev \cup {"cut"}
     ELSE IF interrupt_counter # my_interrupt
       THEN conv_pc' = "post1" /\ UNCHANGED <<stop_all, turn_ev>>
       ELSE conv_pc' = "llm_read" /\ UNCHANGED <<stop_all, turn_ev>>
  /\ UNCHANGED <<now, interrupt_counter, playback_active, playing, volume,
                 gate_until_ms, paused, recording_paused, chanVars, pbVars, capVars,
                 thrVars, my_interrupt, llm_stream, interrupted, interrupted_printed,
                 speaker_buf, tokens_left, prompt, conversation_history, ttsVars,
                 observed, n_print, n_assist, n_speak, spoken,
                 in_code_block, last_strip, n_banner, bumped_in_stream,
                 turn_bumped, reply, histVars>>

\* llm.rs:479-483, 587  the stream ends (EOF or a terminating line).
LlmEof ==
  /\ conv_pc = "llm_read"
  /\ conv_pc' = "post1"
  /\ UNCHANGED <<sharedVars, chanVars, pbVars, capVars, thrVars, my_interrupt, llm_stream,
                 interrupted, interrupted_printed, speaker_buf, tokens_left, prompt,
                 conversation_history, ttsVars, turnHist, histVars>>

\* llm.rs:480  a read of the stream fails (`?`); conversation.rs:235-239 logs
\* and continues with the next utterance.
LlmFail ==
  /\ conv_pc = "llm_read"
  /\ conv_pc' = LlmErrContinue
  /\ turn_ev' = turn_ev \cup {"llm_read_err"}
  /\ UNCHANGED <<sharedVars, chanVars, pbVars, capVars, thrVars, my_interrupt, llm_stream,
                 interrupted, interrupted_printed, speaker_buf, tokens_left, prompt,
                 conversation_history, ttsVars, observed, n_print, n_assist,
                 n_speak, spoken,
                 in_code_block, last_strip, n_banner, bumped_in_stream, turn_bumped, reply, histVars>>

\* conversation.rs:167-181 and 257-270  a phrase is printed, appended to the
\* transcript and handed to tts::speak (tts.rs:39-77 dispatches on Args.tts;
\* tts.rs:312-327 creates the StreamingTts and spawns the cancel monitor).
EmitPhrase(phrase) ==
  /\ n_print' = n_print + 1
  /\ conversation_history' = AppendLine(conversation_history, AssistLine(phrase))
  /\ n_assist' = n_assist + 1
  /\ n_speak' = n_speak + 1
  /\ spoken' = Append(spoken, StripSpecialChars(phrase, in_code_block).out)
  /\ tts_text' = StripSpecialChars(phrase, in_code_block).out
  /\ in_code_block' = StripSpecialChars(phrase, in_code_block).inside
  /\ last_strip' = [s |-> phrase, inside |-> in_code_block,
                    out |-> StripSpecialChars(phrase, in_code_block).out]
  /\ tts_sent' = 0
  /\ tts_result' = "none"
  /\ interrupt_flag' = FALSE
  /\ IF tts_backend = "kokoro"
       THEN tts_pc' = "k_spawned" /\ cur_mon' = TRUE
       ELSE tts_pc' = "h_get" /\ cur_mon' = FALSE
  /\ wav_channels' = 0
  /\ UNCHANGED wav
  /\ stale_call' = "unset"
  \* :168 transcript (released at the end of the statement), then :175 voice,
  \* held until tts::speak has returned
  /\ Holding(1)
  /\ UNCHANGED <<tts_backend, leaked>>

NoPhrase ==
  UNCHANGED <<n_print, conversation_history, n_assist, n_speak, spoken,
                 in_code_block, last_strip, ttsVars, max_held>>

\* conversation.rs:136-188  on_piece up to the call of tts::speak.
OnPiece(tok) ==
  IF interrupted THEN
    /\ stop_all' = TrySendStopAll(stop_all)
    /\ turn_ev' = turn_ev \cup {"stop_all"}
    /\ conv_pc' = "llm"
    /\ NoPhrase
    /\ UNCHANGED <<interrupted, speaker_buf, observed>>
  ELSE IF stop_all > 0 THEN
    /\ stop_all' = 0
    /\ interrupted' = TRUE
    /\ speaker_buf' = <<>>
    /\ conv_pc' = "llm"
    /\ NoPhrase
    /\ UNCHANGED <<observed, turn_ev>>
  ELSE
    /\ UNCHANGED <<stop_all, turn_ev>>
    /\ observed' = (observed \/ interrupt_counter # my_interrupt)
    /\ IF EpochTest(interrupt_counter, my_interrupt) THEN
         /\ interrupted' = TRUE
         /\ speaker_buf' = <<>>
         /\ conv_pc' = "llm"
         /\ NoPhrase
       ELSE
         LET r == PushText(speaker_buf, tok) IN
           /\ speaker_buf' = r.buf
           /\ UNCHANGED interrupted
           /\ IF r.phrase # <<>>
                THEN conv_pc' = "speak" /\ EmitPhrase(r.phrase)
                ELSE conv_pc' = "llm" /\ NoPhrase

\* llm.rs:508-572  a line of the stream carries a non-empty token.
LlmToken(tok) ==
  /\ conv_pc = "llm_read"
  /\ tokens_left > 0
  /\ tokens_left' = tokens_left - 1
  /\ reply' = Append(reply, tok)
  /\ OnPiece(tok)
  /\ UNCHANGED <<now, interrupt_counter, playback_active, playing, volume,
                 gate_until_ms, paused, recording_paused, chanVars, pbVars, capVars,
                 thrVars, my_interrupt, llm_stream, interrupted_printed, prompt, n_banner,
                 bumped_in_stream, turn_bumped, histRest>>

\* conversation.rs:182-199  tts::speak has returned inside on_piece.
SpeakReturn ==
  /\ conv_pc = "speak"
  /\ tts_pc = "ret"
  /\ tts_pc' = "none"
  /\ stale_call' = "unset"
  /\ conv_pc' = "llm"
  /\ IF tts_result = "Err" THEN
       /\ interrupted' = TRUE
       /\ turn_ev' = turn_ev \cup {"tts_err"}
       /\ UNCHANGED <<interrupted_printed, n_banner, observed>>
     ELSE IF tts_result = "Interrupted" THEN
       /\ interrupted' = TRUE
       /\ n_banner' = n_banner + Banner(interrupted_printed)
       /\ interrupted_printed' = TRUE
       /\ UNCHANGED <<observed, turn_ev>>
     ELSE
       /\ UNCHANGED turn_ev
       /\ observed' = (observed \/ interrupt_counter # my_interrupt)
       /\ IF interrupt_counter # my_interrupt /\ playing THEN
            /\ interrupted' = TRUE
            /\ n_banner' = n_banner + Banner(interrupted_printed)
            /\ interrupted_printed' = TRUE
          ELSE UNCHANGED <<interrupted, interrupted_printed, n_banner>>
  /\ UNCHANGED <<sharedVars, chanVars, pbVars, capVars, thrVars, my_interrupt, llm_stream,
                 speaker_buf, tokens_left, prompt, conversation_history,
                 tts_backend, tts_text, tts_sent, interrupt_flag, cur_mon, leaked,
                 tts_result, wav_channels, wav, n_print, n_assist, n_speak, spoken,
                 in_code_block, last_strip, bumped_in_stream,
                 turn_bumped, reply, histVars>>

\* conversation.rs:243-246  first check after the stream.
ConvPost1 ==
  /\ conv_pc = "post1"
  /\ conv_pc' = IF interrupt_counter # my_interrupt THEN "idle" ELSE "post2"
  /\ UNCHANGED <<sharedVars, chanVars, pbVars, capVars, thrVars, my_interrupt, llm_stream,
                 interrupted, interrupted_printed, speaker_buf, tokens_left, prompt,
                 conversation_history, ttsVars, turnHist, histVars>>

\* conversation.rs:248-258  second check, then the residual flush.
ConvPost2 ==
  /\ conv_pc = "post2"
  /\ IF interrupt_counter # my_interrupt THEN
       /\ n_banner' = n_banner + Banner(interrupted_printed)
       /\ interrupted_printed' = TRUE
       /\ conv_pc' = "idle"
       /\ NoPhrase
       /\ UNCHANGED <<speaker_buf, turn_ev>>
     ELSE
       LET r == Flush(speaker_buf) IN
         /\ speaker_buf' = r.buf
         /\ UNCHANGED <<n_banner, interrupted_printed>>
         /\ IF r.phrase # <<>>
              THEN /\ conv_pc' = "flush_speak"
                   /\ EmitPhrase(r.phrase)
                   /\ UNCHANGED turn_ev
              ELSE /\ conv_pc' = "idle"
                   /\ NoPhrase
                   /\ turn_ev' = turn_ev \cup {"done"}
  /\ UNCHANGED <<sharedVars, chanVars, pbVars, capVars, thrVars, my_interrupt, llm_stream,
                 interrupted, tokens_left, prompt, observed, bumped_in_stream,
                 turn_bumped, reply, histRest>>

\* conversation.rs:271-285  tts::speak has returned from the residual flush.
FlushSpeakReturn ==
  /\ conv_pc = "flush_speak"
  /\ tts_pc = "ret"
  /\ tts_pc' = "none"
  /\ stale_call' = "unset"
  /\ conv_pc' = "idle"
  /\ IF tts_result # "Err"
        /\ (tts_result = "Interrupted" \/ interrupt_counter # my_interrupt) THEN
       /\ n_banner' = n_banner + Banner(interrupted_printed)
       /\ interrupted_printed' = TRUE
     ELSE UNCHANGED <<n_banner, interrupted_printed>>
  /\ turn_ev' = turn_ev \cup
       {IF tts_result = "Err" THEN "tts_err"
        ELSE IF tts_result = "Interrupted" \/ interrupt_counter # my_interrupt
          THEN "tts_int" ELSE "done"}
  /\ UNCHANGED <<sharedVars, chanVars, pbVars, capVars, thrVars, my_interrupt, llm_stream,
                 interrupted, speaker_buf, tokens_left, prompt,
                 conversation_history, tts_backend, tts_text, tts_sent,
                 interrupt_flag, cur_mon, leaked, tts_result, wav_channels, wav,
                 observed, n_print,
                 n_assist, n_speak, spoken,
                 in_code_block, last_strip, bumped_in_stream, turn_bumped, reply,
                 histVars>>

\* ---------------------------------------------------------------------------
\* tts::speak adapters.  A chunk put on the audio channel is tagged with the
\* epoch of the turn that produced it.
\* ---------------------------------------------------------------------------
\* The epoch as the speak call finds it when it takes its first step.
CallEpoch ==
  IF stale_call # "unset" THEN stale_call
  ELSE IF interrupt_counter # my_interrupt THEN "stale" ELSE "fresh"

TtsFrame ==
  UNCHANGED <<now, interrupt_counter, playback_active, playing, volume,
              gate_until_ms, paused, recording_paused, rx_stop, rx_utt, pbVars,
              capVars, thrVars, convVars, tts_backend, tts_text, turnHist,
              histVars>>

\* kokoro_tts.rs:65-71  speak_stream resets the flag the monitor shares.
KokoroBegin ==
  /\ tts_pc = "k_spawned"
  /\ interrupt_flag' = FALSE
  /\ tts_pc' = "k_synth"
  /\ UNCHANGED <<stop_all, rx_audio, tts_sent, cur_mon, leaked, tts_result,
                 wav_channels, wav>>
  /\ stale_call' = CallEpoch
  /\ TtsFrame

\* kokoro_tts.rs:80-83  top of the synthesis loop.
KokoroLoop ==
  /\ tts_pc = "k_synth"
  /\ tts_pc' = IF tts_sent >= KokoroChunks(tts_text) \/ interrupt_flag
                 THEN "k_join" ELSE "k_send"
  /\ UNCHANGED <<stop_all, rx_audio, tts_sent, interrupt_flag, cur_mon, leaked,
                 tts_result, wav_channels, wav, stale_call>>
  /\ TtsFrame

\* kokoro_tts.rs:84-103  synthesis, second flag test, send.
KokoroSend(ok, n) ==
  /\ tts_pc = "k_send"
  /\ IF ~ok THEN
       tts_sent' = tts_sent + 1 /\ tts_pc' = "k_synth" /\ UNCHANGED rx_audio
     ELSE IF interrupt_flag THEN
       tts_pc' = "k_join" /\ UNCHANGED <<tts_sent, rx_audio>>
     ELSE
       /\ Len(rx_audio) < MaxAudio
       /\ rx_audio' = Append(rx_audio, [tag |-> my_interrupt, n |-> n, ch |-> 1,
                                        sr |-> KOKORO_SAMPLE_RATE])
       /\ tts_sent' = tts_sent + 1
       /\ tts_pc' = "k_synth"
  /\ UNCHANGED <<stop_all, interrupt_flag, cur_mon, leaked, tts_result,
                 wav_channels, wav, stale_call>>
  /\ TtsFrame

\* kokoro_tts.rs:110-116 and tts.rs:328-336  join; the monitor is not joined.
KokoroJoin ==
  /\ tts_pc = "k_join"
  /\ tts_result' = IF interrupt_flag THEN "Interrupted" ELSE "Completed"
  /\ tts_pc' = "ret"
  /\ cur_mon' = FALSE
  /\ leaked' = IF cur_mon THEN [leaked EXCEPT ![my_interrupt] = TRUE] ELSE leaked
  /\ UNCHANGED <<stop_all, rx_audio, tts_sent, interrupt_flag, wav_channels, wav, stale_call>>
  /\ TtsFrame

\* tts.rs:319-327  the monitor of the running speak call sees its condition.
MonitorPoll ==
  /\ cur_mon
  /\ stop_all > 0 \/ interrupt_counter # my_interrupt
  /\ stop_all' = 0
  /\ interrupt_flag' = TRUE
  /\ cur_mon' = FALSE
  /\ UNCHANGED <<rx_audio, tts_pc, tts_sent, leaked, tts_result, wav_channels, wav>>
  /\ stale_call' = CallEpoch
  /\ TtsFrame

\* tts.rs:319-327  a monitor that outlived its speak call sees its condition.
LeakedPoll(e) ==
  /\ leaked[e]
  /\ stop_all > 0 \/ interrupt_counter # e
  /\ stop_all' = 0
  /\ leaked' = [leaked EXCEPT ![e] = FALSE]
  /\ UNCHANGED <<rx_audio, tts_pc, tts_sent, interrupt_flag, cur_mon, tts_result,
                 wav_channels, wav, stale_call>>
  /\ TtsFrame

\* tts.rs:391-393, 427-503  empty text, request, RIFF header and chunk headers; `ch` is the
\* channel count of the fmt chunk (a zero count is rejected at :493).
HttpGet(ok, ch) ==
  /\ tts_pc = "h_get"
  /\ IF tts_text = <<>> THEN                       \* :391-393
       /\ tts_result' = "Completed" /\ tts_pc' = "ret"
       /\ UNCHANGED <<stop_all, wav_channels>>
     ELSE IF ~ok THEN
       /\ tts_result' = "Err" /\ tts_pc' = "ret"
       /\ UNCHANGED <<stop_all, wav_channels>>
     ELSE IF stop_all > 0 THEN
       /\ tts_result' = "Interrupted" /\ tts_pc' = "ret" /\ stop_all' = 0
       /\ UNCHANGED wav_channels
     ELSE IF interrupt_counter # my_interrupt THEN
       /\ tts_result' = "Interrupted" /\ tts_pc' = "ret"
       /\ UNCHANGED <<stop_all, wav_channels>>
     ELSE
       /\ tts_pc' = "h_check" /\ wav_channels' = ch
       /\ UNCHANGED <<tts_result, stop_all>>
  /\ UNCHANGED <<rx_audio, tts_sent, interrupt_flag, cur_mon, leaked, wav>>
  /\ stale_call' = CallEpoch
  /\ TtsFrame

\* tts.rs:562-568, 601-625  PCM read, then the cancel tests before a send.
HttpCheck(ok) ==
  /\ tts_pc = "h_check"
  /\ IF ~ok THEN
       tts_result' = "Err" /\ tts_pc' = "ret" /\ UNCHANGED stop_all
     ELSE IF tts_sent >= MaxHttpChunks THEN
       tts_result' = "Completed" /\ tts_pc' = "ret" /\ UNCHANGED stop_all
     ELSE IF stop_all > 0 THEN
       tts_result' = "Interrupted" /\ tts_pc' = "ret" /\ stop_all' = 0
     ELSE IF interrupt_counter # my_interrupt THEN
       tts_result' = "Interrupted" /\ tts_pc' = "ret" /\ UNCHANGED stop_all
     ELSE
       tts_pc' = "h_send" /\ UNCHANGED <<tts_result, stop_all>>
  /\ UNCHANGED <<rx_audio, tts_sent, interrupt_flag, cur_mon, leaked, wav_channels, wav, stale_call>>
  /\ TtsFrame

\* tts.rs:569-581, 627-654  decode, normalise, send.
HttpSend(n) ==
  /\ tts_pc = "h_send"
  /\ Len(rx_audio) < MaxAudio
  /\ n % wav_channels = 0       \* :644 aligned to whole frames
  /\ rx_audio' = Append(rx_audio, [tag |-> my_interrupt, n |-> n,
                                   ch |-> wav_channels, sr |-> OutSampleRate])
  /\ tts_sent' = tts_sent + 1
  /\ tts_pc' = "h_check"
  /\ UNCHANGED <<stop_all, interrupt_flag, cur_mon, leaked, tts_result,
                 wav_channels, wav, stale_call>>
  /\ TtsFrame

\* tts.rs:568-582  the send loop over the decoded block: pieces of `per`
\* samples, each cut down to whole frames; a piece of less than one frame
\* ends the loop.
RECURSIVE ChunkLens(_, _, _)
ChunkLens(n, per, ch) ==
  LET take == IF n < per THEN n ELSE per
      aligned == take - (take % ch)
  IN IF n = 0 \/ aligned = 0 THEN <<>>
     ELSE <<aligned>> \o ChunkLens(n - take, per, ch)

\* tts.rs:505-658  the data path of stream_wav16le_over_http for a response
\* whose fmt chunk says ch channels at sr Hz and whose data chunk holds len
\* samples, when nothing cancels the call.
\* Equal rates (:507-599): `want` bytes are read into buf (:520-536), then
\* read_to_end reads what is left of the body into pcm (:539-540); pcm alone
\* is decoded and sent; a second round of the while loop (remaining > 0)
\* finds the body exhausted and fails (:523-535).
\* Other rates (:600-655): the whole data is read, resampled and sent as one
\* chunk.
StreamWav(ch, sr, len) ==
  IF sr = OutSampleRate THEN
    IF len = 0 THEN [sent |-> <<>>, result |-> "Completed"]
    ELSE LET want == IF len < WavBufSamples THEN len ELSE WavBufSamples
             lens == ChunkLens(len - want, ChunkFrames * ch, ch)
         IN [sent |-> [i \in 1..Len(lens) |-> Pcm(lens[i], ch, OutSampleRate)],
             result |-> IF len - want > 0 THEN "Err" ELSE "Completed"]
  ELSE
    LET r == ResampleTo(Pcm(len, ch, sr), ch, sr, OutSampleRate).n
    IN [sent |-> <<Pcm(r - (r % ch), ch, OutSampleRate)>>,
        result |-> "Completed"]

\* tts.rs:419-658  one call of stream_wav16le_over_http on a response.
WavStream ==
  /\ wav.ch # 0
  /\ wav.result = "none"
  /\ wav' = [wav EXCEPT !.sent = StreamWav(wav.ch, wav.sr, wav.len).sent,
                        !.result = StreamWav(wav.ch, wav.sr, wav.len).result]
  /\ UNCHANGED <<sharedVars, chanVars, pbVars, capVars, thrVars, convVars,
                 tts_backend, tts_pc, tts_text, tts_sent, interrupt_flag,
                 cur_mon, leaked, tts_result, wav_channels, stale_call,
                 turnHist, histVars>>

\* ---------------------------------------------------------------------------
\* The program after main has spawned its threads (main.rs:138-398).
\* ---------------------------------------------------------------------------
\* state.rs:57-64  PlaybackState, ui.playing, and the empty queue of
\* playback.rs:75; no callback has written an output buffer yet.
BootPlayback ==
  /\ playback_active = FALSE
  /\ playing = FALSE
  /\ volume = 1
  /\ paused = FALSE
  /\ queue = <<>>
  /\ out_buf = Silence(OutBufLen)

\* Everything else the threads start with.
BootThreads(lang) ==
  /\ now = StartMs
  /\ interrupt_counter = 0
  /\ gate_until_ms = 0
  /\ recording_paused = FALSE
  /\ stop_all = 0
  /\ rx_stop = <<>>
  /\ rx_audio = <<>>
  /\ rx_utt = <<>>
  /\ pb_pc = "select"
  /\ pb_chunk = NoChunk
  /\ user_speaking = FALSE
  /\ last_voice_ms = 0
  /\ utt_buf = 0
  /\ stop_sent = FALSE
  /\ utts_emitted = 0
  /\ peak = 0
  /\ cap_log = NoCapLog
  /\ rec_alive = TRUE
  /\ kb_alive = TRUE
  /\ ui_alive = TRUE
  /\ last_esc = -1
  /\ speed = 12
  /\ prev_esc = NoEsc
  /\ key_log = NoKey
  /\ main_pc = "wait_kb"
  /\ tts_backend \in {"kokoro", "opentts"}
  /\ language = lang
  /\ voice \in Voices(tts_backend, lang)      \* main.rs:167-208
  /\ conv_pc = "idle"
  /\ my_interrupt = 0
  /\ interrupted = FALSE
  /\ interrupted_printed = FALSE
  /\ speaker_buf = <<>>
  /\ tokens_left = 0
  /\ prompt = <<>>
  /\ conversation_history = <<>>
  /\ tts_pc = "none"
  /\ tts_text = <<>>
  /\ tts_sent = 0
  /\ interrupt_flag = FALSE
  /\ cur_mon = FALSE
  /\ leaked = [e \in 0..MaxEpoch |-> FALSE]
  /\ tts_result = "none"
  /\ wav_channels = 0
  /\ stale_call = "unset"
  /\ observed = FALSE
  /\ n_print = 0
  /\ n_assist = 0
  /\ n_speak = 0
  /\ n_banner = 0
  /\ bumped_in_stream = FALSE
  /\ turn_bumped = FALSE
  /\ turn_ev = {}
  /\ reply = <<>>
  /\ spoken = <<>>
  /\ in_code_block = FALSE
  /\ last_strip = NoStrip
  /\ span_stops = 0
  /\ stop_handled = 0
  /\ cb_vol0 = FALSE
  /\ last_push = NoPush
  /\ last_bump = "none"
  /\ max_held = 0

\* No response body is being read.
NoStream == [llm |-> "none", lines |-> <<>>, read |-> <<>>, calls |-> <<>>,
             ret |-> FALSE]
\* No WAV response is being read.
NoWav == [ch |-> 0, sr |-> 0, len |-> 0, sent |-> <<>>, result |-> "none"]
BootStream == llm_stream = NoStream /\ wav = NoWav

Boot(lang) == BootPlayback /\ BootThreads(lang) /\ BootStream

\* main.rs:159-208  the program started with --language fr, a language with
\* one voice under either backend.
Init == Boot("fr")

\* The orchestrator with the speak adapters it calls.
ConvStep ==
  \/ ConvStopAll
  \/ ConvRecv
  \/ \E res \in SttResults : ConvStt(res)
  \/ ConvChk102
  \/ ConvChk203
  \/ \E ok \in BOOLEAN : LlmRequest(ok)
  \/ LlmCheck
  \/ LlmEof
  \/ LlmFail
  \/ \E tok \in Tokens : LlmToken(tok)
  \/ SpeakReturn
  \/ ConvPost1
  \/ ConvPost2
  \/ FlushSpeakReturn
  \/ KokoroBegin
  \/ KokoroLoop
  \/ \E ok \in BOOLEAN, n \in 1..MaxChunk : KokoroSend(ok, n)
  \/ KokoroJoin
  \/ MonitorPoll
  \/ \E e \in 0..MaxEpoch : LeakedPoll(e)
  \/ \E ok \in BOOLEAN, ch \in 1..MaxWavChannels : HttpGet(ok, ch)
  \/ \E ok \in BOOLEAN : HttpCheck(ok)
  \/ \E n \in 1..MaxChunk : HttpSend(n)

\* A conversation: capture, orchestrator, adapters, playback and Ctrl-C.
NextTurn ==
  \/ Tick
  \/ Capture
  \/ Device
  \/ PbStop
  \/ PbRecvAudio
  \/ PbPush
  \/ KbCtrlC
  \/ KbPollStop
  \/ ConvStep

SpecTurn == Init /\ [][NextTurn]_vars

\* Both writers of interrupt_counter against the orchestrator: capture,
\* keyboard, the stop arm of the control loop, orchestrator and adapters.
NextEpoch ==
  \/ Tick
  \/ Capture
  \/ KbEsc
  \/ PbStop
  \/ ConvStep

SpecEpoch == Init /\ [][NextEpoch]_vars

\* The segmenter alone: the capture callback with buffers of varying length,
\* the clock and the Space key that pauses recording.
NextSeg ==
  \/ Tick
  \/ CaptureAny
  \/ KbSpace

SpecSeg == Init /\ [][NextSeg]_vars

\* The Escape key against the clock and the stop arm of the control loop
\* that receives its signals.
NextKeys ==
  \/ KeyTick
  \/ KbEsc
  \/ KbSpace
  \/ PbStop

SpecKeys == Init /\ [][NextKeys]_vars

\* The arrow keys, for every language of the voice tables and every voice
\* the program accepts at start.
InitDial == \E lang \in Languages : Boot(lang)

NextDial ==
  \/ KbUp
  \/ KbDown
  \/ KbLeft
  \/ KbRight

SpecDial == InitDial /\ [][NextDial]_vars

\* The program at the moment the LLM answers the first turn: one voiced and
\* one silent capture buffer made the utterance, it was transcribed as "hi",
\* the checks at conversation.rs:102 and :203 passed and the request
\* succeeded.
PhraseStart(pending) ==
  /\ now = StartMs + TickMs
  /\ interrupt_counter = 0
  /\ playback_active = TRUE
  /\ playing = FALSE
  /\ volume = 1
  /\ gate_until_ms = 0
  /\ paused = FALSE
  /\ recording_paused = FALSE
  /\ stop_all = 0
  /\ rx_stop = <<>>
  /\ rx_audio = <<>>
  /\ rx_utt = pending
  /\ queue = <<>>
  /\ out_buf = Silence(OutBufLen)
  /\ pb_pc = "select"
  /\ pb_chunk = NoChunk
  /\ user_speaking = FALSE
  /\ last_voice_ms = StartMs
  /\ utt_buf = 0
  /\ stop_sent = FALSE
  /\ utts_emitted = 1 + Len(pending)
  /\ peak = 0
  /\ cap_log = [seg |-> 2 * CbSamples, sent |-> TRUE, gated |-> FALSE]
  /\ rec_alive = TRUE
  /\ kb_alive = TRUE
  /\ ui_alive = TRUE
  /\ last_esc = -1
  /\ speed = 12
  /\ prev_esc = NoEsc
  /\ key_log = NoKey
  /\ main_pc = "wait_kb"
  /\ tts_backend \in {"kokoro", "opentts"}
  /\ language = "fr"
  /\ voice \in Voices(tts_backend, "fr")
  /\ conv_pc = "llm"
  /\ my_interrupt = 0
  /\ interrupted = FALSE
  /\ interrupted_printed = FALSE
  /\ speaker_buf = <<>>
  /\ tokens_left = MaxTokens
  /\ prompt = <<UserLine(<<" ", "h", "i">>)>>
  /\ conversation_history = <<UserLine(<<"h", "i">>)>>
  /\ tts_pc = "none"
  /\ tts_text = <<>>
  /\ tts_sent = 0
  /\ interrupt_flag = FALSE
  /\ cur_mon = FALSE
  /\ leaked = [e \in 0..MaxEpoch |-> FALSE]
  /\ tts_result = "none"
  /\ wav_channels = 0
  /\ stale_call = "unset"
  /\ observed = FALSE
  /\ n_print = 0
  /\ n_assist = 0
  /\ n_speak = 0
  /\ n_banner = 0
  /\ bumped_in_stream = FALSE
  /\ turn_bumped = FALSE
  /\ turn_ev = {}
  /\ reply = <<>>
  /\ spoken = <<>>
  /\ in_code_block = FALSE
  /\ last_strip = NoStrip
  /\ span_stops = 0
  /\ stop_handled = 0
  /\ cb_vol0 = FALSE
  /\ last_bump = "none"
  /\ last_push = NoPush
  /\ max_held = 1
  /\ llm_stream = NoStream
  /\ wav = NoWav

InitPhrase == PhraseStart(<<>>)

\* The reply of that turn, piece by piece, with the speak calls it makes.
NextPhrase ==
  \/ LlmCheck
  \/ LlmEof
  \/ LlmFail
  \/ \E tok \in Pieces : LlmToken(tok)
  \/ SpeakReturn
  \/ ConvPost1
  \/ ConvPost2
  \/ FlushSpeakReturn
  \/ KokoroBegin
  \/ KokoroLoop
  \/ \E ok \in BOOLEAN, n \in 1..MaxChunk : KokoroSend(ok, n)
  \/ KokoroJoin
  \/ \E ok \in BOOLEAN, ch \in 1..MaxWavChannels : HttpGet(ok, ch)
  \/ \E ok \in BOOLEAN : HttpCheck(ok)
  \/ \E n \in 1..MaxChunk : HttpSend(n)

SpecPhrase == InitPhrase /\ [][NextPhrase]_vars

\* The same reply with the Escape key pressed at any moment and the cancel
\* monitors of the speak calls running.
NextSpeak ==
  \/ NextPhrase
  \/ KbEsc
  \/ MonitorPoll
  \/ \E e \in 0..MaxEpoch : LeakedPoll(e)

SpecSpeak == InitPhrase /\ [][NextSpeak]_vars

\* The same reply with the playback side running: the control loop takes the
\* chunks from the channel and the device callback plays them.  The control
\* loop blocks only in its select and the callback is driven by the device.
NextPlay ==
  \/ NextPhrase
  \/ PbRecvAudio
  \/ PbPush
  \/ Device

SpecPlayFair ==
  /\ InitPhrase
  /\ [][NextPlay]_vars
  /\ WF_vars(PbRecvAudio)
  /\ WF_vars(PbPush)
  /\ WF_vars(Device)

\* The same moment with a second utterance already waiting in the channel:
\* the user spoke again while the first turn was being prepared.
InitFence == PhraseStart(<<2 * CbSamples>>)

\* Pieces of a reply that opens a code fence.
FencePieces == Tokens \cup {OpenFencePiece}

\* Two turns in a row: the reply of the first, then the second utterance
\* from the channel through transcription, checks, request and reply.
NextFence ==
  \/ ConvRecv
  \/ \E res \in SttResults : ConvStt(res)
  \/ ConvChk102
  \/ ConvChk203
  \/ \E ok \in BOOLEAN : LlmRequest(ok)
  \/ LlmCheck
  \/ LlmEof
  \/ LlmFail
  \/ \E tok \in FencePieces : LlmToken(tok)
  \/ SpeakReturn
  \/ ConvPost1
  \/ ConvPost2
  \/ FlushSpeakReturn
  \/ KokoroBegin
  \/ KokoroLoop
  \/ \E ok \in BOOLEAN, n \in 1..MaxChunk : KokoroSend(ok, n)
  \/ KokoroJoin
  \/ \E ok \in BOOLEAN, ch \in 1..MaxWavChannels : HttpGet(ok, ch)
  \/ \E ok \in BOOLEAN : HttpCheck(ok)
  \/ \E n \in 1..MaxChunk : HttpSend(n)

SpecFence == InitFence /\ [][NextFence]_vars

\* The control loop and the device callback keep running: the loop is a
\* thread that blocks only in select, the callback is driven by the device.
SpecTurnFair ==
  /\ SpecTurn
  /\ WF_vars(PbStop)
  /\ WF_vars(PbRecvAudio)
  /\ WF_vars(PbPush)
  /\ WF_vars(Device)

\* The stream function applied to a response body of up to MaxLines lines,
\* under either value of Args.llm.
InitStream ==
  /\ BootPlayback
  /\ BootThreads("fr")
  /\ wav = NoWav
  /\ llm_stream \in
       [llm : {"ollama", "llama-server"},
        lines : UNION {[1..n -> StreamLines] : n \in 0..MaxLines},
        read : {<<>>}, calls : {<<>>}, ret : {FALSE}]

SpecStream == InitStream /\ [][StreamRead]_vars

\* stream_wav16le_over_http applied to a well-formed response: PCM 16-bit,
\* one or two channels, a rate equal to the output rate or not, and a data
\* chunk of whole frames.
InitWav ==
  /\ BootPlayback
  /\ BootThreads("fr")
  /\ llm_stream = NoStream
  /\ wav \in {w \in [ch : 1..MaxWavChannels,
                      sr : {OutSampleRate, KOKORO_SAMPLE_RATE, 22050},
                      len : 0..MaxWavLen, sent : {<<>>}, result : {"none"}] :
                w.len % w.ch = 0}

SpecWav == InitWav /\ [][WavStream]_vars

\* An input device whose sample format is i16 (record.rs:84), with the
\* keyboard: Space pauses recording, Ctrl-C sends stop_all.
NextI16 ==
  \/ Tick
  \/ CaptureI16
  \/ KbSpace
  \/ KbCtrlC

SpecI16 == Init /\ [][NextI16]_vars

\* The output callback as a function of what it reads: the volume and paused
\* flags, the queue, and the buffer the platform hands it.  The inputs are
\* drawn here; out_buf starts as a draining callback left it.
QueueStates ==
  UNION {[1..n -> {SampleOf(0), SampleOf(1)}] : n \in 0..MaxSamples}
InitDevice ==
  /\ BootThreads("fr")
  /\ BootStream
  /\ volume \in {0, 1}
  /\ paused \in BOOLEAN
  /\ queue \in QueueStates
  /\ playback_active \in BOOLEAN
  /\ playing = playback_active
  /\ out_buf = [i \in 1..OutBufLen |-> SampleOf(0)]
NextDevice ==
  \/ Tick
  \/ Device
SpecDevice == InitDevice /\ [][NextDevice]_vars

\* Shutdown of an idle program: Ctrl-C, main, and the pollers of stop_all.
NextStop ==
  \/ Tick
  \/ Capture
  \/ Device
  \/ KbSpace
  \/ KbCtrlC
  \/ MainStop
  \/ RecordPoll
  \/ PbStopAll
  \/ ConvStopAll
  \/ UiPollStop

\* Every poller runs again and again (record.rs:141-145, ui.rs:54-57, the
\* select loops of playback.rs:288 and conversation.rs:58), and main goes on
\* once the keyboard thread is joined.
SpecStopFair ==
  /\ Init
  /\ [][NextStop]_vars
  /\ WF_vars(MainStop)
  /\ WF_vars(RecordPoll)
  /\ WF_vars(PbStopAll)
  /\ WF_vars(ConvStopAll)
  /\ WF_vars(UiPollStop)

\* ---------------------------------------------------------------------------
\* Properties
\* ---------------------------------------------------------------------------

\* C1: in a step after which on_piece has observed interrupt_counter different
\* from the turn's snapshot, and in every later step of that turn, no phrase
\* is printed, no ASSISTANT line is appended and tts::speak is not called.
C1_NoSideEffectAfterObserved ==
  [][observed' => (n_print' = n_print /\ n_assist' = n_assist /\ n_speak' = n_speak)]_vars

\* A turn that spoke a phrase to completion, then observed the advance in
\* on_piece, and has ended.
C1_Witness ==
  /\ conv_pc = "idle"
  /\ observed
  /\ interrupted
  /\ n_speak >= 1
  /\ n_banner = 0
  /\ tts_result = "Completed"

\* C2: within one voice span the capture callback sends at most one stop
\* signal (and so advances interrupt_counter at most once).
C2_OneStopPerSpan == span_stops <= 1

\* C3: a stop-playback signal that has been sent is eventually taken from its
\* channel and handled by the control loop.
C3_StopEventuallyHandled == (rx_stop # <<>>) ~> (rx_stop = <<>>)

\* C4: once main has sent stop_all after the keyboard thread ended, the record
\* thread, the playback control loop, the orchestrator and the UI thread all
\* eventually exit.
C4_AllThreadsExit == (main_pc = "joining") ~> AllExited

\* C5: once the control loop has handled the stop sent with an advance of
\* interrupt_counter, the queue holds no sample of a turn with an older epoch.
C5_NoStaleSample ==
  \A i \in 1..Len(queue) : queue[i] >= SampleOf(stop_handled)

\* C6: interrupt_counter never decreases, and every step that writes it adds
\* exactly one.
C6_EpochMonotone ==
  [][interrupt_counter' = interrupt_counter
       \/ interrupt_counter' = interrupt_counter + 1]_vars

\* The counter has been advanced by both writers.
C6_Witness ==
  /\ interrupt_counter = MaxEpoch
  /\ last_bump = "keyboard"
  /\ span_stops >= 1

\* C7: a device callback that snapshots volume == 0 leaves the output buffer
\* entirely silent.
C7_MutedCallbackSilent == cb_vol0 => out_buf = Silence(OutBufLen)

\* C8: a turn in which interrupt_counter advanced while the reply was
\* streaming, and on_piece observed it, is back at the idle wait with the
\* "USER interrupted" banner printed exactly once.
C8_BannerOnBargeIn ==
  (conv_pc = "idle" /\ bumped_in_stream /\ observed) => n_banner = 1

\* C9: the "USER interrupted" banner is printed at most once per turn.
C9_BannerAtMostOnce == n_banner <= 1

\* The banner has been printed and the check at conversation.rs:251 is about
\* to ask for it again.
C9_Witness ==
  /\ conv_pc = "post2"
  /\ n_banner = 1
  /\ interrupted_printed
  /\ interrupt_counter # my_interrupt

\* C10: when a turn during which interrupt_counter advanced is back at the
\* idle wait, the transcript is empty.
C10_TranscriptCleared ==
  (conv_pc = "idle" /\ turn_bumped) => conversation_history = <<>>

\* C11: in a turn in which a tts::speak call returned Err, the orchestrator
\* never sends on the stop_all channel.
C11_TtsFailureNoStopAll ==
  ("tts_err" \in turn_ev) => ("stop_all" \notin turn_ev)

\* C12: a step taken from the transcription never ends the orchestrator
\* thread: a failed transcription drops the turn and returns to the idle wait.
C12_SttFailureKeepsRunning ==
  [][conv_pc = "stt" => conv_pc' # "exited"]_vars

\* C13: when the LLM request fails, the orchestrator is back at the idle wait
\* with no tts::speak call made, no ASSISTANT line appended and the
\* transcript as the USER line left it.
C13_LlmFailureSkipsTurn ==
  [][("llm_req_err" \in turn_ev' /\ "llm_req_err" \notin turn_ev) =>
       /\ conv_pc' = "idle"
       /\ n_speak' = 0 /\ n_assist' = 0 /\ n_print' = 0
       /\ tts_pc' = "none"
       /\ conversation_history' = conversation_history]_vars

\* The request of a turn has failed after its USER line was appended.
C13_Witness ==
  /\ "llm_req_err" \in turn_ev
  /\ conv_pc = "idle"
  /\ conversation_history # <<>>
  /\ n_speak = 0

\* C14: the playback queue never holds more than QUEUE_CAP_FRAMES *
\* out_channels samples.
C14_QueueBounded == Len(queue) <= MaxSamples

\* C15: the samples queued for a chunk are at the device's channel count and
\* sample rate, whatever the format of the chunk.
C15_PushedAtDeviceFormat ==
  last_push # NoPush => last_push.to = <<OutChannels, OutSampleRate>>

\* A chunk whose rate differs from the device's has been pushed.
C15_Witness ==
  /\ last_push # NoPush
  /\ last_push.from[2] # OutSampleRate
  /\ queue # <<>>

\* C16: at an end of silence the utterance is sent exactly when
\* floor(samples * 1000 / (sample_rate * channels)) >= min_utterance_ms, and
\* every utterance on the channel satisfies that bound.
C16_MinUtteranceBoundary ==
  /\ cap_log.seg > 0 =>
       (cap_log.sent <=> DurMs(cap_log.seg) >= MIN_UTTERANCE_MS_DEFAULT)
  /\ \A i \in 1..Len(rx_utt) : DurMs(rx_utt[i]) >= MIN_UTTERANCE_MS_DEFAULT

\* An utterance of exactly min_utterance_ms has been sent.
C16_Witness ==
  /\ cap_log.sent
  /\ DurMs(cap_log.seg) = MIN_UTTERANCE_MS_DEFAULT
  /\ DurMs(cap_log.seg - 1) < MIN_UTTERANCE_MS_DEFAULT
  /\ rx_utt = <<cap_log.seg>>

\* C17: a voiced capture callback that finds playback active (and the latch
\* clear) while now <= gate_until_ms sends the stop-playback signal and
\* increments interrupt_counter.
C17_GateNeverSuppresses ==
  [][(/\ peak' >= VadThresh
      /\ utt_buf' # utt_buf
      /\ playback_active
      /\ ~stop_sent
      /\ now <= gate_until_ms) =>
       /\ interrupt_counter' = interrupt_counter + 1
       /\ rx_stop' = Append(rx_stop, interrupt_counter')]_vars

\* The last barge-in fired inside the gate window.
C17_Witness ==
  /\ cap_log.gated
  /\ last_bump = "capture"
  /\ rx_stop # <<>>
  /\ ~playback_active
  /\ volume = 0

\* C18: while the segmenter is not in speech, a step that leaves a
\* below-threshold peak behind (every capture callback with a quiet buffer)
\* emits no utterance, sends no stop signal, leaves interrupt_counter
\* unchanged and does not enter in-speech.
C18_QuietCallbacksInert ==
  [][(~user_speaking /\ peak' < VadThresh) =>
       /\ ~user_speaking'
       /\ utts_emitted' = utts_emitted
       /\ Len(rx_utt') <= Len(rx_utt)
       /\ Len(rx_stop') <= Len(rx_stop)
       /\ span_stops' = span_stops
       /\ interrupt_counter' = interrupt_counter]_vars

\* A quiet buffer with a non-zero peak has been processed before any voice,
\* any stop_all message or any turn.
C18_Witness ==
  /\ peak > 0 /\ peak < VadThresh
  /\ ~user_speaking
  /\ last_voice_ms = 0
  /\ kb_alive
  /\ utts_emitted = 0
  /\ interrupt_counter = 0
  /\ rx_stop = <<>>

\* C20: push_text never leaves behind a buffer that contains a newline or
\* ends with '.', '!' or '?' and is non-empty once trimmed: such a buffer is
\* emitted as a phrase and cleared.
C20_TerminatorFlushes ==
  ~(/\ Trim(speaker_buf) # <<>>
    /\ \/ Contains(speaker_buf, "\n")
       \/ EndsWith(speaker_buf, ".")
       \/ EndsWith(speaker_buf, "!")
       \/ EndsWith(speaker_buf, "?"))

\* C19: when an uninterrupted turn is back at the idle wait, the transcript
\* is what it was before the turn, then one USER line, then one ASSISTANT
\* line per phrase of the reply, and tts::speak was called once per phrase,
\* both in the order the phrases were generated.
C19_TurnTranscriptAndSpeech ==
  (/\ conv_pc = "idle"
   /\ turn_ev = {"done"}
   /\ ~interrupted
   /\ ~turn_bumped) =>
    LET ph == PhrasesOf(<<>>, reply)
        before == SubSeq(prompt, 1, Len(prompt) - 1)
        said == Trim(prompt[Len(prompt)].text)
    IN
      /\ conversation_history =
           before \o <<UserLine(said)>> \o [i \in 1..Len(ph) |-> AssistLine(ph[i])]
      /\ spoken = [i \in 1..Len(ph) |-> StripSpecialChars(ph[i], FALSE).out]
      /\ n_assist = Len(ph)
      /\ n_speak = Len(ph)

\* An uninterrupted turn whose reply yields two phrases, the second one by
\* the residual flush, has ended.
C19_Witness ==
  /\ conv_pc = "idle"
  /\ turn_ev = {"done"}
  /\ ~interrupted
  /\ ~turn_bumped
  /\ reply = << <<".">>, <<"a">> >>
  /\ n_speak = 2

\* C21: after every push_text the text kept in the phrase buffer is shorter
\* than 140 characters (a buffer that reaches 140 characters is emitted even
\* without newline or terminal punctuation).
C21_BufferBelowCap == Len(speaker_buf) < 140

\* C22: while the pieces delivered so far hold no newline, no '.', '!' or '?'
\* and fewer than 140 characters in all, no push_text has returned a phrase
\* (nothing printed, appended or spoken, the buffer is the concatenation of
\* the pieces); the flush at the end of the stream then returns the trimmed
\* concatenation, which becomes the one ASSISTANT line and the one speak call.
C22_NoTriggerNoPhrase ==
  LET RECURSIVE Concat(_)
      Concat(t) == IF t = <<>> THEN <<>> ELSE Head(t) \o Concat(Tail(t))
      all == Concat(reply)
      plain == /\ \A i \in 1..Len(all) : all[i] \notin {"\n", ".", "!", "?"}
               /\ Len(all) < 140
  IN (plain /\ "llm_read_err" \notin turn_ev) =>
       /\ conv_pc \in {"llm", "llm_read", "post1", "post2"} =>
            n_print = 0 /\ n_assist = 0 /\ n_speak = 0 /\ speaker_buf = all
       /\ (conv_pc \in {"flush_speak", "idle"} /\ Trim(all) # <<>>) =>
            /\ n_print = 1 /\ n_assist = 1 /\ n_speak = 1
            /\ last_strip.s = Trim(all)
            /\ conversation_history[Len(conversation_history)] = AssistLine(Trim(all))
            /\ speaker_buf = <<>>
       /\ (conv_pc = "idle" /\ Trim(all) = <<>>) => n_speak = 0 /\ speaker_buf = <<>>

\* A reply of a space and a letter: nothing is emitted while it streams, the
\* flush emits the letter alone.
C22_Witness ==
  /\ conv_pc = "idle"
  /\ turn_ev = {"done"}
  /\ reply = << <<" ">>, <<"a">> >>
  /\ n_speak = 1
  /\ last_strip.s = <<"a">>

\* C23: a reply made only of whitespace (spaces, tabs, newlines) yields no
\* phrase, from push_text or from flush: nothing is printed, no ASSISTANT line
\* is appended and tts::speak is not called.
C23_WhitespaceOnlySilent ==
  (reply # <<>> /\ \A i \in 1..Len(reply) : Trim(reply[i]) = <<>>) =>
    /\ n_print = 0 /\ n_assist = 0 /\ n_speak = 0
    /\ tts_pc = "none"
    /\ conversation_history = <<UserLine(<<"h", "i">>)>>

\* A newline then a tab: the newline triggers push_text, the turn ends at the
\* flush, and nothing was spoken.
C23_Witness ==
  /\ conv_pc = "idle"
  /\ turn_ev = {"done"}
  /\ reply = << <<"\n">>, <<"\t">> >>
  /\ speaker_buf = <<>>
  /\ n_speak = 0

\* C24: strip_special_chars keeps every character that stands between two
\* fences and removes the listed punctuation from the text outside fences.
\* The fences themselves may be kept or dropped: the property allows both.
C24_FencedTextKept ==
  LET RECURSIVE Keep(_, _, _)
      Keep(s, inside, marks) ==
        IF s = <<>> THEN <<>>
        ELSE IF Len(s) >= 3 /\ SubSeq(s, 1, 3) = Fence
          THEN (IF marks THEN Fence ELSE <<>>) \o Keep(SubSeq(s, 4, Len(s)), ~inside, marks)
        ELSE (IF inside \/ Head(s) \notin SpecialChars THEN <<Head(s)>> ELSE <<>>)
               \o Keep(Tail(s), inside, marks)
      in == last_strip.s
  IN IF ~Contains(in, Backtick)
       THEN last_strip.out = (IF last_strip.inside THEN in
                              ELSE SelectSeq(in, LAMBDA c : c \notin SpecialChars))
       ELSE last_strip.out \in {Keep(in, last_strip.inside, TRUE),
                                Keep(in, last_strip.inside, FALSE)}

\* C25: the code-fence state belongs to the turn: from the moment a turn
\* takes its utterance until its first phrase is stripped the state is
\* "outside fence", whatever the previous turn left behind.
C25_TurnStartsOutsideFence ==
  (conv_pc \notin {"idle", "exited"} /\ n_speak = 0) => ~in_code_block

\* C26: every Escape press puts one signal on the stop-playback channel; it
\* advances interrupt_counter by exactly 1 if the previous Escape press was
\* at most 1000 ms earlier and did not itself complete a double press, and
\* leaves interrupt_counter unchanged otherwise.  (Only an Escape press
\* changes last_esc, and every Escape press changes it.)
C26_EscapeDoublePress ==
  [][last_esc' # last_esc =>
       /\ Len(rx_stop') = Len(rx_stop) + 1
       /\ SubSeq(rx_stop', 1, Len(rx_stop)) = rx_stop
       /\ interrupt_counter' = interrupt_counter +
            (IF prev_esc.at # -1 /\ now - prev_esc.at <= 1000 /\ ~prev_esc.dbl
               THEN 1 ELSE 0)]_vars

\* A press that completed a double press after the clock had advanced: its
\* signal carries the new epoch and follows the signal of the first press.
C26_Witness ==
  /\ prev_esc = [at |-> StartMs + 2 * KeyTickMs, dbl |-> TRUE]
  /\ now = prev_esc.at
  /\ interrupt_counter = 1
  /\ last_esc = -1
  /\ rx_stop = <<0, 1>>

\* C27: the speed stays within [5, 80] tenths; Up adds 1 unless the value
\* is 80 and Down subtracts 1 unless the value is 5.
C27_SpeedInRange ==
  /\ speed \in 5..80
  /\ key_log.key = "Up" =>
       speed = IF key_log.speed = 80 THEN 80 ELSE key_log.speed + 1
  /\ key_log.key = "Down" =>
       speed = IF key_log.speed = 5 THEN 5 ELSE key_log.speed - 1
  /\ key_log.key \in {"Left", "Right"} => speed = key_log.speed

\* Up pressed at the upper end.
C27_Witness == speed = 80 /\ key_log.key = "Up" /\ key_log.speed = 80

\* C28: the current voice is always one of the voices of the backend and
\* language; Right selects the next voice of the list and Left the previous
\* one, wrapping at the ends; a Left pressed right after a Right restores the
\* voice the Right found.
C28_VoiceCycles ==
  /\ [](LET voices == GetVoicesFor(tts_backend, language)
            n == Len(voices)
            at == CHOOSE i \in 1..n : voices[i] = key_log.voice
        IN /\ n > 0
           /\ \E i \in 1..n : voices[i] = voice
           /\ key_log.key = "Right" => voice = voices[IF at = n THEN 1 ELSE at + 1]
           /\ key_log.key = "Left" => voice = voices[IF at = 1 THEN n ELSE at - 1]
           /\ key_log.key \in {"Up", "Down"} => voice = key_log.voice)
  /\ [][(key_log.key = "Right" /\ key_log'.key = "Left") => voice' = key_log.voice]_vars

\* Left pressed on the first of the three Spanish voices selects the last.
C28_Witness ==
  /\ language = "es"
  /\ tts_backend = "kokoro"
  /\ key_log.key = "Left"
  /\ key_log.voice = "ef_dora"
  /\ voice = "em_santa"

\* C29: a speak call that begins when interrupt_counter already differs from
\* the expected epoch puts no AudioChunk on the audio channel and returns
\* Interrupted, under either adapter and however the cancel monitor and the
\* synthesis thread interleave.
C29_StaleCallSilent ==
  /\ []((stale_call = "stale" /\ tts_pc = "ret") => tts_result = "Interrupted")
  /\ [][stale_call' = "stale" => Len(rx_audio') <= Len(rx_audio)]_vars

\* C30: the capture callback advances interrupt_counter only while assistant
\* audio is active: voice detected when nothing has been enqueued for
\* playback never advances it.
C30_CaptureBumpNeedsAudio ==
  [][(interrupt_counter' # interrupt_counter /\ last_bump' = "capture") =>
       last_push # NoPush]_vars

\* C31: once the turn flag `interrupted` is set, the steps after the end of
\* the LLM stream print no phrase, append no ASSISTANT line and make no
\* tts::speak call: the residual flush finds nothing to emit.
C31_InterruptedNoResidual ==
  [][(interrupted /\ conv_pc \in {"post1", "post2"}) =>
       /\ n_print' = n_print /\ n_assist' = n_assist /\ n_speak' = n_speak
       /\ conversation_history' = conversation_history
       /\ conv_pc' # "flush_speak"]_vars
\* A turn whose only speak call failed has passed both post-stream checks
\* (the epoch did not move) and the flush, and is back at the idle wait.
C31_Witness ==
  /\ conv_pc = "idle" /\ interrupted
  /\ turn_ev = {"tts_err", "done"}
  /\ n_speak = 1 /\ interrupt_counter = my_interrupt

\* C32: whenever the control loop is in its backpressure wait, it eventually
\* leaves it (finds room, pushes the chunk and is back at the select).
C32_BackpressureEnds ==
  (pb_pc = "backpressure") ~> (pb_pc # "backpressure")

\* C33: a device callback that runs with volume != 0 while paused is set
\* leaves only silence in its output buffer and takes no sample from the
\* queue; when the queue is non-empty it leaves playback_active true, and
\* otherwise leaves playback_active as it was.
C33_PausedCallbackHolds ==
  [][(paused /\ volume # 0 /\ Device) =>
       /\ out_buf' = Silence(OutBufLen)
       /\ queue' = queue
       /\ queue # <<>> => playback_active'
       /\ queue = <<>> => playback_active' = playback_active]_vars
\* A paused callback has run over a full queue: the buffer is silent, the
\* queue is whole and playback_active is set.
C33_Witness ==
  /\ paused /\ volume = 1
  /\ Len(queue) = MaxSamples
  /\ out_buf = Silence(OutBufLen)
  /\ playback_active

C35_PausedCaptureInert ==
  [][(recording_paused /\ CaptureI16) =>
       UNCHANGED <<utt_buf, user_speaking, last_voice_ms, stop_sent,
                   interrupt_counter, volume, playback_active, gate_until_ms,
                   rx_utt, rx_stop, rx_audio, stop_all>>]_vars

\* C36: no thread ever holds two of the volume, playback-queue,
\* utterance-buffer, transcript and voice mutexes at the same time.
C36_OneLockAtATime == max_held <= 1

\* C37: the on_piece calls made so far are the non-empty token fields
\* (delta.content, text, response) of the lines read, once each and in
\* stream order; and when a line read is "[DONE]", a choice with
\* finish_reason == "stop" or an object with done == true, that line is the
\* last one read and the function has returned.
C37_StreamStopsAtTerminator ==
  LET rd == llm_stream.read
      Term(l) == l.kind = "sse_done" \/ (l.kind \in {"choice", "native"} /\ l.end)
      Toks(l) == (IF l.a # "" THEN <<l.a>> ELSE <<>>) \o
                 (IF l.b # "" THEN <<l.b>> ELSE <<>>)
      RECURSIVE Cat(_)
      Cat(n) == IF n = 0 THEN <<>> ELSE Cat(n - 1) \o Toks(rd[n])
  IN /\ llm_stream.calls = Cat(Len(rd))
     /\ \A i \in 1..Len(rd) : Term(rd[i]) => (i = Len(rd) /\ llm_stream.ret)

\* C38: every AudioChunk the HTTP adapter has sent carries the output rate,
\* has a length that is a multiple of its channel count, and holds at most
\* CHUNK_FRAMES x channels samples, whatever the rate of the WAV.
C38_ChunksBounded ==
  \A i \in 1..Len(wav.sent) :
    /\ wav.sent[i].sr = OutSampleRate
    /\ wav.sent[i].n % wav.sent[i].ch = 0
    /\ wav.sent[i].n <= ChunkFrames * wav.sent[i].ch

\* C39: when the call on a WAV at the output rate has returned, it returned
\* Completed and the chunks it sent hold all the samples of the data chunk.
C39_AllSamplesSent ==
  LET RECURSIVE Sum(_)
      Sum(n) == IF n = 0 THEN 0 ELSE Sum(n - 1) + wav.sent[n].n
  IN (wav.sr = OutSampleRate /\ wav.result # "none") =>
       /\ wav.result = "Completed"
       /\ Sum(Len(wav.sent)) = wav.len

\* C40: the cancel monitor of a local-neural speak call is gone once the call
\* has returned: no monitor of a returned call is still running, and no such
\* monitor takes a stop_all signal.
C40_MonitorEndsWithCall ==
  /\ [](\A e \in 0..MaxEpoch : ~leaked[e])
  /\ [][\A e \in 0..MaxEpoch : LeakedPoll(e) => stop_all = 0]_vars

====
